---- MODULE Spec2Model ----
(***************************************************************************)
(* Compilation mode orchestrator of tinywasm: mode state and builder       *)
(* switching (Change), one-shot project detection (New), the wasm_exec.js  *)
(* generator with its per-mode cache, and the file event handler.          *)
(*                                                                         *)
(* Strings are sequences of symbols.  A symbol is a single character, or   *)
(* a word the code never looks inside (a runtime signature, a keyword).    *)
(***************************************************************************)
EXTENDS Integers, Sequences, FiniteSets, TLC

VARIABLES
    currentMode,      \* TinyWasm.currentMode
    activeBuilder,    \* TinyWasm.activeBuilder: which of the three builders
    tinyGoCompiler,   \* TinyWasm.tinyGoCompiler
    wasmProject,      \* TinyWasm.wasmProject
    tinyGoInstalled,  \* TinyWasm.tinyGoInstalled
    cache,            \* the three mode*_wasm_exec_cache fields
    artifact,         \* the file wasm_exec.js on disk
    mainFile,         \* the entry file SourceDir/MainInputFile exists
    otherWasmGo,      \* some other *.wasm.go file exists under AppRootDir
    tinygoOnPath,     \* environment: a working tinygo is installed
    last,             \* the last operation: its inputs and what it did
    steps,            \* number of operations performed since Init
    call,             \* a JavascriptForInitializing call in progress
    wasmDetectionFuncFromGoFile,  \* TinyWasm.wasmDetectionFuncFromGoFile
    wasmDetectionFuncFromJsFile   \* TinyWasm.wasmDetectionFuncFromJsFile

vars == <<currentMode, activeBuilder, tinyGoCompiler, wasmProject,
          tinyGoInstalled, cache, artifact, mainFile, otherWasmGo,
          tinygoOnPath, last, steps, call, wasmDetectionFuncFromGoFile,
          wasmDetectionFuncFromJsFile>>

\* ------------------------------------------------------------------ bounds
MaxSteps == 2

\* operations in a behaviour of SpecCache
MaxCacheSteps == 4

\* steps in a behaviour of SpecConc
MaxConcSteps == 5

\* calls in a behaviour of SpecGen
MaxGenSteps == 1

\* calls in a behaviour of SpecEvents
MaxEventSteps == 1

\* calls and edits in a behaviour of SpecScaffold
MaxScaffoldSteps == 3

\* mode changes in a behaviour of SpecPath
MaxPathSteps == 2

\* file events in a behaviour of SpecEventDetect
MaxEventDetectSteps == 2

\* tool calls in a behaviour of SpecMcp
MaxMcpSteps == 2

\* --------------------------------------------------------- configuration
\* The configured shortcuts; single upper-case letters by default.
BuildLargeSizeShortcut == <<"L">>
BuildMediumSizeShortcut == <<"M">>
BuildSmallSizeShortcut == <<"S">>

Builders == {"builderCoding", "builderDebug", "builderProduction"}

\* a file on disk
NoFile == [exists |-> FALSE, content |-> <<>>]

File(content) == [exists |-> TRUE, content |-> content]

\* ------------------------------------------------------- string helpers
Spaces == {" ", "\t", "\n", "\r"}

\* tinystring Convert(s).ToUpper() / strings.ToLower, symbol by symbol
UpperSym(c) ==
    CASE c = "l" -> "L" [] c = "m" -> "M" [] c = "s" -> "S"
      [] c = "x" -> "X" [] c = "mode=" -> "MODE="
      [] OTHER -> c

LowerSym(c) ==
    CASE c = "L" -> "l" [] c = "M" -> "m" [] c = "S" -> "s"
      [] c = "X" -> "x" [] c = "MODE=" -> "mode="
      [] OTHER -> c

ToUpper(s) == [i \in 1..Len(s) |-> UpperSym(s[i])]

ToLower(s) == [i \in 1..Len(s) |-> LowerSym(s[i])]

\* strings.Index / strings.IndexAny for a single symbol: 0 when absent
IndexAny(s, syms) ==
    IF \E i \in 1..Len(s) : s[i] \in syms
    THEN CHOOSE i \in 1..Len(s) :
            s[i] \in syms /\ \A j \in 1..(i-1) : s[j] \notin syms
    ELSE 0

HasPrefix(s, p) == Len(s) >= Len(p) /\ SubSeq(s, 1, Len(p)) = p

\* strings.Contains for a one-symbol needle
Contains(s, sym) == \E i \in 1..Len(s) : s[i] = sym

RECURSIVE TrimRight(_, _)
TrimRight(s, cut) ==
    IF s # <<>> /\ s[Len(s)] \in cut
    THEN TrimRight(SubSeq(s, 1, Len(s) - 1), cut)
    ELSE s

RECURSIVE TrimLeft(_, _)
TrimLeft(s, cut) ==
    IF s # <<>> /\ s[1] \in cut THEN TrimLeft(Tail(s), cut) ELSE s

TrimSpace(s) == TrimLeft(TrimRight(s, Spaces), Spaces)

\* strings.Split(s, "\n")
RECURSIVE SplitLines(_)
SplitLines(s) ==
    LET i == IndexAny(s, {"\n"}) IN
    IF i = 0 THEN <<s>>
    ELSE <<SubSeq(s, 1, i - 1)>> \o SplitLines(SubSeq(s, i + 1, Len(s)))

\* strings.Join(lines, "\n")
RECURSIVE JoinLines(_)
JoinLines(lines) ==
    IF Len(lines) = 1 THEN lines[1]
    ELSE lines[1] \o <<"\n">> \o JoinLines(Tail(lines))

\* ReplaceAll "\r\n" -> "\n" and then "\r" -> "\n"
RECURSIVE ReplaceCR(_)
ReplaceCR(s) ==
    IF s = <<>> THEN <<>>
    ELSE IF s[1] = "\r" /\ Len(s) >= 2 /\ s[2] = "\n"
         THEN <<"\n">> \o ReplaceCR(SubSeq(s, 3, Len(s)))
    ELSE IF s[1] = "\r" THEN <<"\n">> \o ReplaceCR(Tail(s))
    ELSE <<s[1]>> \o ReplaceCR(Tail(s))

normalizeJs(s) ==
    LET lines == SplitLines(ReplaceCR(s)) IN
    JoinLines([i \in 1..Len(lines) |-> TrimRight(lines[i], {" ", "\t"})])

FirstLine(content) ==
    LET i == IndexAny(content, {"\n"}) IN
    IF i = 0 THEN content ELSE SubSeq(content, 1, i - 1)

\* ------------------------------------------------- signatures, payloads
wasm_execGoSignatures ==
    <<"runtime.scheduleTimeoutEvent", "runtime.clearTimeoutEvent",
      "runtime.wasmExit">>

wasm_execTinyGoSignatures ==
    <<"runtime.sleepTicks", "runtime.ticks", "$runtime.alloc", "tinygo_js">>

\* The embedded assets: Go's and TinyGo's wasm_exec.js
embeddedWasmExecGo ==
    <<"runtime.scheduleTimeoutEvent", "\n", "runtime.clearTimeoutEvent", " ",
      "\n", "runtime.wasmExit", "\n">>

embeddedWasmExecTinyGo ==
    <<"runtime.sleepTicks", "\n", "runtime.ticks", "\t", "\n",
      "$runtime.alloc", "\n", "tinygo_js", "\n">>

\* gobuild's MainOutputFileNameWithExtension(): the same for the 3 builders
MainOutputFileNameWithExtension == "main.wasm"

HeaderPrefix == <<"//", " ", "TinyWasm:", " ">>

\* fmt.Sprintf("// TinyWasm: mode=%s\n", mode)
DefaultHeader(mode) == HeaderPrefix \o <<"mode=">> \o mode \o <<"\n">>

DefaultFooter ==
    <<"\n", "\t", "\t", "const go = new Go();", "\n", "\t", "\t", "fetch(",
      MainOutputFileNameWithExtension, ")", "\n", "\t">>

\* ---------------------------------------------------- mode registry
\* as requiresTinyGo, but the production mode is forgotten
requiresTinyGo_DebugOnly(mode) == mode = BuildMediumSizeShortcut

requiresTinyGo(mode) ==
    mode = BuildMediumSizeShortcut \/ mode = BuildSmallSizeShortcut

validModes ==
    <<ToUpper(BuildLargeSizeShortcut), ToUpper(BuildMediumSizeShortcut),
      ToUpper(BuildSmallSizeShortcut)>>

\* as validateMode, but no token is rejected
validateMode_AcceptsAll(mode) == TRUE

\* TRUE when validateMode returns nil
validateMode(mode) ==
    \E i \in 1..Len(validModes) : ToUpper(mode) = validModes[i]

\* as getSuccessMessage, with the two TinyGo cases swapped
getSuccessMessage_Swapped(mode) ==
    CASE mode = BuildLargeSizeShortcut -> "Switching to coding mode"
      [] mode = BuildMediumSizeShortcut -> "Switching to production mode"
      [] mode = BuildSmallSizeShortcut -> "Switching to debugging mode"
      [] OTHER -> "Invalid mode"

getSuccessMessage(mode) ==
    CASE mode = BuildLargeSizeShortcut -> "Switching to coding mode"
      [] mode = BuildMediumSizeShortcut -> "Switching to debugging mode"
      [] mode = BuildSmallSizeShortcut -> "Switching to production mode"
      [] OTHER -> "Invalid mode"

\* installTinyGo always fails: "Error: Cannot install TinyGo: ..."
handleTinyGoMissing == "Error: Cannot install TinyGo: not implemented"

\* --------------------------------------------------------------- events
\* what a progress callback receives: the kind of message, the mode it
\* names and its text
Msg(kind, mode, text) == [kind |-> kind, mode |-> mode, text |-> text]

NoMsg == Msg("-", <<>>, "-")

\* an observable effect: Cancel or CompileProgram on builder b, the
\* assignment of activeBuilder, a write of wasm_exec.js, a progress call
Ev(e, b, msg, js) == [e |-> e, b |-> b, msg |-> msg, js |-> js]

Emit(w, ev) == [w EXCEPT !.events = Append(@, ev)]

progress(w, msg) == Emit(w, Ev("progress", "-", msg, <<>>))

\* ------------------------------------------------------ orchestrator
Value(w) ==
    IF w.currentMode = <<>> THEN BuildLargeSizeShortcut ELSE w.currentMode

WasmProjectTinyGoJsUse(w) ==
    <<w.wasmProject, requiresTinyGo(Value(w)) /\ w.tinyGoInstalled>>

getWasmExecContent(w) ==
    LET use == WasmProjectTinyGoJsUse(w) IN
    IF ~use[1] THEN [js |-> <<>>, err |-> "not a WASM project"]
    ELSE IF use[2] THEN [js |-> embeddedWasmExecTinyGo, err |-> "nil"]
    ELSE [js |-> embeddedWasmExecGo, err |-> "nil"]

\* as SlotOf, but the two TinyGo modes share the debug slot
SlotOf_TinyGoShared(w, mode) ==
    CASE mode = BuildLargeSizeShortcut -> "C"
      [] mode = BuildMediumSizeShortcut -> "D"
      [] mode = BuildSmallSizeShortcut -> "D"
      [] OTHER -> IF w.tinyGoCompiler THEN "D" ELSE "C"

\* the cache slot a mode is stored in
SlotOf(w, mode) ==
    CASE mode = BuildLargeSizeShortcut -> "C"
      [] mode = BuildMediumSizeShortcut -> "D"
      [] mode = BuildSmallSizeShortcut -> "P"
      [] OTHER -> IF w.tinyGoCompiler THEN "D" ELSE "C"

\* as JavascriptForInitializing, without the early return for an instance
\* that is not a WASM project
JavascriptForInitializing_NoProjectCheck(w, customizations) ==
    LET mode == Value(w)
        raw == getWasmExecContent(w)
        header == IF Len(customizations) > 0 THEN customizations[1]
                  ELSE DefaultHeader(Value(w))
        footer == IF Len(customizations) > 1 THEN customizations[2]
                  ELSE DefaultFooter
        normalized == normalizeJs(header \o raw.js \o footer)
    IN
    IF mode = BuildLargeSizeShortcut /\ w.cache.C # <<>>
    THEN [w |-> w, js |-> w.cache.C, err |-> "nil"]
    ELSE IF mode = BuildMediumSizeShortcut /\ w.cache.D # <<>>
    THEN [w |-> w, js |-> w.cache.D, err |-> "nil"]
    ELSE IF mode = BuildSmallSizeShortcut /\ w.cache.P # <<>>
    THEN [w |-> w, js |-> w.cache.P, err |-> "nil"]
    ELSE IF raw.err # "nil"
    THEN [w |-> w, js |-> <<>>, err |-> raw.err]
    ELSE IF w.activeBuilder = "nil"
    THEN [w |-> w, js |-> <<>>, err |-> "activeBuilder not initialized"]
    ELSE [w |-> [w EXCEPT !.cache[SlotOf(w, mode)] = normalized],
          js |-> normalized, err |-> "nil"]

\* as JavascriptForInitializing, without the check of the active builder
JavascriptForInitializing_NoBuilderCheck(w, customizations) ==
    LET mode == Value(w)
        raw == getWasmExecContent(w)
        header == IF Len(customizations) > 0 THEN customizations[1]
                  ELSE DefaultHeader(Value(w))
        footer == IF Len(customizations) > 1 THEN customizations[2]
                  ELSE DefaultFooter
        normalized == normalizeJs(header \o raw.js \o footer)
    IN
    IF ~WasmProjectTinyGoJsUse(w)[1]
    THEN [w |-> w, js |-> <<>>, err |-> "nil"]
    ELSE IF mode = BuildLargeSizeShortcut /\ w.cache.C # <<>>
    THEN [w |-> w, js |-> w.cache.C, err |-> "nil"]
    ELSE IF mode = BuildMediumSizeShortcut /\ w.cache.D # <<>>
    THEN [w |-> w, js |-> w.cache.D, err |-> "nil"]
    ELSE IF mode = BuildSmallSizeShortcut /\ w.cache.P # <<>>
    THEN [w |-> w, js |-> w.cache.P, err |-> "nil"]
    ELSE IF raw.err # "nil"
    THEN [w |-> w, js |-> <<>>, err |-> raw.err]
    ELSE [w |-> [w EXCEPT !.cache[SlotOf(w, mode)] = normalized],
          js |-> normalized, err |-> "nil"]

\* as JavascriptForInitializing, but a filled cache slot is not returned
JavascriptForInitializing_NoCacheHit(w, customizations) ==
    LET mode == Value(w)
        raw == getWasmExecContent(w)
        header == IF Len(customizations) > 0 THEN customizations[1]
                  ELSE DefaultHeader(Value(w))
        footer == IF Len(customizations) > 1 THEN customizations[2]
                  ELSE DefaultFooter
        normalized == normalizeJs(header \o raw.js \o footer)
    IN
    IF ~WasmProjectTinyGoJsUse(w)[1]
    THEN [w |-> w, js |-> <<>>, err |-> "nil"]
    ELSE IF raw.err # "nil"
    THEN [w |-> w, js |-> <<>>, err |-> raw.err]
    ELSE IF w.activeBuilder = "nil"
    THEN [w |-> w, js |-> <<>>, err |-> "activeBuilder not initialized"]
    ELSE [w |-> [w EXCEPT !.cache[SlotOf(w, mode)] = normalized],
          js |-> normalized, err |-> "nil"]

JavascriptForInitializing(w, customizations) ==
    LET mode == Value(w)
        raw == getWasmExecContent(w)
        header == IF Len(customizations) > 0 THEN customizations[1]
                  ELSE DefaultHeader(Value(w))
        footer == IF Len(customizations) > 1 THEN customizations[2]
                  ELSE DefaultFooter
        normalized == normalizeJs(header \o raw.js \o footer)
    IN
    IF ~WasmProjectTinyGoJsUse(w)[1]
    THEN [w |-> w, js |-> <<>>, err |-> "nil"]
    ELSE IF mode = BuildLargeSizeShortcut /\ w.cache.C # <<>>
    THEN [w |-> w, js |-> w.cache.C, err |-> "nil"]
    ELSE IF mode = BuildMediumSizeShortcut /\ w.cache.D # <<>>
    THEN [w |-> w, js |-> w.cache.D, err |-> "nil"]
    ELSE IF mode = BuildSmallSizeShortcut /\ w.cache.P # <<>>
    THEN [w |-> w, js |-> w.cache.P, err |-> "nil"]
    ELSE IF raw.err # "nil"
    THEN [w |-> w, js |-> <<>>, err |-> raw.err]
    ELSE IF w.activeBuilder = "nil"
    THEN [w |-> w, js |-> <<>>, err |-> "activeBuilder not initialized"]
    ELSE [w |-> [w EXCEPT !.cache[SlotOf(w, mode)] = normalized],
          js |-> normalized, err |-> "nil"]

\* as ClearJavaScriptCache, but only the slot of the coding mode is emptied
ClearJavaScriptCache_CodingOnly(w) == [w EXCEPT !.cache.C = <<>>]

\* as ClearJavaScriptCache, but the detection result is cleared as well
ClearJavaScriptCache_ResetsDetection(w) ==
    [w EXCEPT !.cache = [C |-> <<>>, D |-> <<>>, P |-> <<>>],
              !.wasmProject = FALSE]

ClearJavaScriptCache(w) ==
    [w EXCEPT !.cache = [C |-> <<>>, D |-> <<>>, P |-> <<>>]]

\* as wasmProjectWriteOrReplaceWasmExecJsOutput, but a failure makes the
\* instance give up writing for good
wasmProjectWriteOrReplaceWasmExecJsOutput_GivesUp(w, io) ==
    IF ~w.wasmProject THEN w
    ELSE IF io = "mkdir_fails" THEN [w EXCEPT !.wasmProject = FALSE]
    ELSE LET r == JavascriptForInitializing(w, <<>>) IN
         IF r.err # "nil" THEN r.w
         ELSE IF io = "write_fails" THEN [r.w EXCEPT !.wasmProject = FALSE]
         ELSE Emit([r.w EXCEPT !.artifact = File(r.js)],
                   Ev("write", "-", NoMsg, r.js))

\* as wasmProjectWriteOrReplaceWasmExecJsOutput, with the project guard
\* inverted: a WASM project is skipped
wasmProjectWriteOrReplaceWasmExecJsOutput_GuardInverted(w, io) ==
    IF w.wasmProject THEN w
    ELSE IF io = "mkdir_fails" THEN w
    ELSE LET r == JavascriptForInitializing(w, <<>>) IN
         IF r.err # "nil" THEN r.w
         ELSE IF io = "write_fails" THEN r.w
         ELSE Emit([r.w EXCEPT !.artifact = File(r.js)],
                   Ev("write", "-", NoMsg, r.js))

\* io: "ok", "mkdir_fails" (os.MkdirAll) or "write_fails" (os.WriteFile)
wasmProjectWriteOrReplaceWasmExecJsOutput(w, io) ==
    IF ~w.wasmProject THEN w
    ELSE IF io = "mkdir_fails" THEN w
    ELSE LET r == JavascriptForInitializing(w, <<>>) IN
         IF r.err # "nil" THEN r.w
         ELSE IF io = "write_fails" THEN r.w
         ELSE Emit([r.w EXCEPT !.artifact = File(r.js)],
                   Ev("write", "-", NoMsg, r.js))

\* ----------------------------------------------------------- detection
\* number of the signatures of a list that the content contains
SigCount(content, sigs) ==
    Cardinality({i \in 1..Len(sigs) : Contains(content, sigs[i])})

\* <<mode, ok>>: the mode named by the header on the first line
getModeFromWasmExecJsHeader(content) ==
    LET firstLine == FirstLine(content)
        rest == TrimSpace(SubSeq(firstLine, Len(HeaderPrefix) + 1,
                                 Len(firstLine)))
        mIdx == IndexAny(ToLower(rest), {"mode="})
        after == SubSeq(rest, mIdx + 1, Len(rest))
        end == IndexAny(after, {";", " ", "\t"})
        modeVal == IF end = 0 THEN TrimSpace(after)
                   ELSE TrimSpace(SubSeq(after, 1, end - 1))
    IN
    IF ~HasPrefix(firstLine, HeaderPrefix) THEN <<<<>>, FALSE>>
    ELSE IF mIdx # 0 /\ modeVal # <<>> THEN <<modeVal, TRUE>>
    ELSE <<<<>>, FALSE>>

\* as analyzeWasmExecJsContent, but the header is not consulted
analyzeWasmExecJsContent_SignatureDefault(w) ==
    LET content == w.artifact.content
        goCount == SigCount(content, wasm_execGoSignatures)
        tinyCount == SigCount(content, wasm_execTinyGoSignatures)
        w1 == IF tinyCount > goCount /\ tinyCount > 0
              THEN [w EXCEPT !.tinyGoCompiler = TRUE, !.wasmProject = TRUE]
              ELSE IF goCount > tinyCount /\ goCount > 0
              THEN [w EXCEPT !.tinyGoCompiler = FALSE, !.wasmProject = TRUE]
              ELSE [w EXCEPT !.tinyGoCompiler = tinyCount > 0,
                             !.wasmProject = TRUE]
    IN
    IF tinyCount = 0 /\ goCount = 0 THEN [w |-> w, ok |-> FALSE]
    ELSE IF w1.tinyGoCompiler
    THEN [w |-> [w1 EXCEPT !.activeBuilder = "builderDebug",
                           !.currentMode = BuildMediumSizeShortcut],
          ok |-> TRUE]
    ELSE [w |-> [w1 EXCEPT !.activeBuilder = "builderCoding",
                           !.currentMode = BuildLargeSizeShortcut],
          ok |-> TRUE]

\* as analyzeWasmExecJsContent, but a file without any signature is taken
\* for a Go project
analyzeWasmExecJsContent_AcceptsNoSignature(w) ==
    LET content == w.artifact.content
        goCount == SigCount(content, wasm_execGoSignatures)
        tinyCount == SigCount(content, wasm_execTinyGoSignatures)
        w1 == IF tinyCount > goCount /\ tinyCount > 0
              THEN [w EXCEPT !.tinyGoCompiler = TRUE, !.wasmProject = TRUE]
              ELSE IF goCount > tinyCount /\ goCount > 0
              THEN [w EXCEPT !.tinyGoCompiler = FALSE, !.wasmProject = TRUE]
              ELSE [w EXCEPT !.tinyGoCompiler = tinyCount > 0,
                             !.wasmProject = TRUE]
        hdr == getModeFromWasmExecJsHeader(content)
    IN
    IF hdr[2]
    THEN [w |-> [w1 EXCEPT !.currentMode = hdr[1],
                           !.activeBuilder = IF requiresTinyGo(hdr[1])
                                             THEN "builderDebug"
                                             ELSE "builderCoding"],
          ok |-> TRUE]
    ELSE IF w1.tinyGoCompiler
    THEN [w |-> [w1 EXCEPT !.activeBuilder = "builderDebug",
                           !.currentMode = BuildMediumSizeShortcut],
          ok |-> TRUE]
    ELSE [w |-> [w1 EXCEPT !.activeBuilder = "builderCoding",
                           !.currentMode = BuildLargeSizeShortcut],
          ok |-> TRUE]

\* [w, ok]: the state after the analysis and whether a project was detected
\* as analyzeWasmExecJsContent, but equal counts are inconclusive
analyzeWasmExecJsContent_TieInconclusive(w) ==
    LET content == w.artifact.content
        goCount == SigCount(content, wasm_execGoSignatures)
        tinyCount == SigCount(content, wasm_execTinyGoSignatures)
        w1 == IF tinyCount > goCount /\ tinyCount > 0
              THEN [w EXCEPT !.tinyGoCompiler = TRUE, !.wasmProject = TRUE]
              ELSE [w EXCEPT !.tinyGoCompiler = FALSE, !.wasmProject = TRUE]
        hdr == getModeFromWasmExecJsHeader(content)
    IN
    IF tinyCount = goCount THEN [w |-> w, ok |-> FALSE]
    ELSE IF hdr[2]
    THEN [w |-> [w1 EXCEPT !.currentMode = hdr[1],
                           !.activeBuilder = IF requiresTinyGo(hdr[1])
                                             THEN "builderDebug"
                                             ELSE "builderCoding"],
          ok |-> TRUE]
    ELSE IF w1.tinyGoCompiler
    THEN [w |-> [w1 EXCEPT !.activeBuilder = "builderDebug",
                           !.currentMode = BuildMediumSizeShortcut],
          ok |-> TRUE]
    ELSE [w |-> [w1 EXCEPT !.activeBuilder = "builderCoding",
                           !.currentMode = BuildLargeSizeShortcut],
          ok |-> TRUE]

analyzeWasmExecJsContent(w) ==
    LET content == w.artifact.content
        goCount == SigCount(content, wasm_execGoSignatures)
        tinyCount == SigCount(content, wasm_execTinyGoSignatures)
        w1 == IF tinyCount > goCount /\ tinyCount > 0
              THEN [w EXCEPT !.tinyGoCompiler = TRUE, !.wasmProject = TRUE]
              ELSE IF goCount > tinyCount /\ goCount > 0
              THEN [w EXCEPT !.tinyGoCompiler = FALSE, !.wasmProject = TRUE]
              ELSE [w EXCEPT !.tinyGoCompiler = tinyCount > 0,
                             !.wasmProject = TRUE]
        hdr == getModeFromWasmExecJsHeader(content)
    IN
    IF tinyCount = 0 /\ goCount = 0 THEN [w |-> w, ok |-> FALSE]
    ELSE IF hdr[2]
    THEN [w |-> [w1 EXCEPT !.currentMode = hdr[1],
                           !.activeBuilder = IF requiresTinyGo(hdr[1])
                                             THEN "builderDebug"
                                             ELSE "builderCoding"],
          ok |-> TRUE]
    ELSE IF w1.tinyGoCompiler
    THEN [w |-> [w1 EXCEPT !.activeBuilder = "builderDebug",
                           !.currentMode = BuildMediumSizeShortcut],
          ok |-> TRUE]
    ELSE [w |-> [w1 EXCEPT !.activeBuilder = "builderCoding",
                           !.currentMode = BuildLargeSizeShortcut],
          ok |-> TRUE]

\* as detectFromExistingWasmExecJs, but the file is looked for in the wrong
\* place and never found
detectFromExistingWasmExecJs_Never(w) == [w |-> w, ok |-> FALSE]

detectFromExistingWasmExecJs(w) ==
    IF ~w.artifact.exists THEN [w |-> w, ok |-> FALSE]
    ELSE analyzeWasmExecJsContent(w)

\* as detectFromGoFiles, but only the entry file counts
detectFromGoFiles_EntryOnly(entry, other) == entry

\* the walk finds the entry file or a file with the ".wasm.go" suffix
detectFromGoFiles(entry, other) == entry \/ other

\* as detectProjectConfiguration, but the source scan comes first
detectProjectConfiguration_SourcesFirst(w, entry, other, io) ==
    IF detectFromGoFiles(entry, other)
    THEN wasmProjectWriteOrReplaceWasmExecJsOutput(
            [w EXCEPT !.wasmProject = TRUE, !.tinyGoCompiler = FALSE,
                      !.currentMode = BuildLargeSizeShortcut], io)
    ELSE detectFromExistingWasmExecJs(w).w

detectProjectConfiguration(w, entry, other, io) ==
    LET d == detectFromExistingWasmExecJs(w) IN
    IF d.ok THEN d.w
    ELSE IF detectFromGoFiles(entry, other)
    THEN wasmProjectWriteOrReplaceWasmExecJsOutput(
            [w EXCEPT !.wasmProject = TRUE, !.tinyGoCompiler = FALSE,
                      !.currentMode = BuildLargeSizeShortcut], io)
    ELSE w

\* the builders are created; the coding builder is the active one
builderWasmInit(w) == [w EXCEPT !.activeBuilder = "builderCoding"]

\* the orchestrator New returns, constructed on the files on disk
New(file, entry, other, tinygo, io) ==
    detectProjectConfiguration(
        builderWasmInit(
            [currentMode |-> BuildLargeSizeShortcut,
             activeBuilder |-> "nil",
             tinyGoCompiler |-> FALSE,
             wasmProject |-> FALSE,
             tinyGoInstalled |-> tinygo,
             cache |-> [C |-> <<>>, D |-> <<>>, P |-> <<>>],
             artifact |-> file,
             events |-> <<>>]),
        entry, other, io)

\* ------------------------------------------------------------- Change
\* as updateCurrentBuilder, but currentMode is not updated
updateCurrentBuilder_KeepsMode(w, mode) ==
    LET w1 == IF w.activeBuilder # "nil"
              THEN Emit(w, Ev("cancel", w.activeBuilder, NoMsg, <<>>))
              ELSE w
        b == CASE mode = BuildLargeSizeShortcut -> "builderCoding"
               [] mode = BuildMediumSizeShortcut -> "builderDebug"
               [] mode = BuildSmallSizeShortcut -> "builderProduction"
               [] OTHER -> "builderCoding"
    IN
    [Emit(w1, Ev("assign", b, NoMsg, <<>>)) EXCEPT !.activeBuilder = b]

\* as updateCurrentBuilder, but Cancel is called after the assignment, on
\* the new builder
updateCurrentBuilder_CancelsLate(w, mode) ==
    LET b == CASE mode = BuildLargeSizeShortcut -> "builderCoding"
               [] mode = BuildMediumSizeShortcut -> "builderDebug"
               [] mode = BuildSmallSizeShortcut -> "builderProduction"
               [] OTHER -> "builderCoding"
        w1 == [Emit(w, Ev("assign", b, NoMsg, <<>>))
                  EXCEPT !.activeBuilder = b, !.currentMode = mode]
    IN
    Emit(w1, Ev("cancel", b, NoMsg, <<>>))

\* Cancel on the active builder, then the new builder and the new mode
updateCurrentBuilder(w, mode) ==
    LET w1 == IF w.activeBuilder # "nil"
              THEN Emit(w, Ev("cancel", w.activeBuilder, NoMsg, <<>>))
              ELSE w
        b == CASE mode = BuildLargeSizeShortcut -> "builderCoding"
               [] mode = BuildMediumSizeShortcut -> "builderDebug"
               [] mode = BuildSmallSizeShortcut -> "builderProduction"
               [] OTHER -> "builderCoding"
    IN
    [Emit(w1, Ev("assign", b, NoMsg, <<>>))
        EXCEPT !.activeBuilder = b, !.currentMode = mode]

\* CompileProgram of the active builder; compileOk is gobuild's verdict
CompileError == "exit status 1"

CompileProgram(w, compileOk) ==
    [w |-> Emit(w, Ev("compile", w.activeBuilder, NoMsg, <<>>)),
     err |-> IF compileOk THEN "nil" ELSE CompileError]

\* as RecompileMainWasm, but the compiler's error is replaced by a generic one
RecompileMainWasm_GenericError(w, entry, compileOk) ==
    IF w.activeBuilder = "nil"
    THEN [w |-> w, err |-> "builder not initialized"]
    ELSE IF ~entry THEN [w |-> w, err |-> "main WASM file not found"]
    ELSE [w |-> CompileProgram(w, compileOk).w,
          err |-> IF CompileProgram(w, compileOk).err = "nil"
                  THEN "nil" ELSE "compilation failed"]

\* as RecompileMainWasm, but a successful compilation marks the project
RecompileMainWasm_MarksProject(w, entry, compileOk) ==
    IF w.activeBuilder = "nil"
    THEN [w |-> w, err |-> "builder not initialized"]
    ELSE IF ~entry THEN [w |-> w, err |-> "main WASM file not found"]
    ELSE IF compileOk
    THEN [w |-> [CompileProgram(w, compileOk).w EXCEPT !.wasmProject = TRUE],
          err |-> "nil"]
    ELSE CompileProgram(w, compileOk)

RecompileMainWasm(w, entry, compileOk) ==
    IF w.activeBuilder = "nil"
    THEN [w |-> w, err |-> "builder not initialized"]
    ELSE IF ~entry THEN [w |-> w, err |-> "main WASM file not found"]
    ELSE CompileProgram(w, compileOk)

\* as Change, but Cancel is called before the token is looked at
Change_CancelsFirst(w, token, entry, compileOk, io) ==
    LET newValue == ToUpper(token)
        w0 == Emit(w, Ev("cancel", w.activeBuilder, NoMsg, <<>>))
        w1 == updateCurrentBuilder(w, newValue)
        r == RecompileMainWasm(w1, entry, compileOk)
    IN
    IF ~validateMode(newValue)
    THEN progress(w0, Msg("invalid mode", newValue, "Mode : Invalid Valid"))
    ELSE IF requiresTinyGo(newValue) /\ ~w.tinyGoInstalled
    THEN progress(w0, Msg("error", <<>>, handleTinyGoMissing))
    ELSE IF ~entry
    THEN progress(w1, Msg("success", newValue, getSuccessMessage(newValue)))
    ELSE IF r.err # "nil"
    THEN progress(r.w, Msg("warning", <<>>, r.err))
    ELSE progress(wasmProjectWriteOrReplaceWasmExecJsOutput(r.w, io),
                  Msg("success", newValue, getSuccessMessage(newValue)))

\* as Change, but after the warning of a failed compilation the success
\* message is reported as well
Change_WarnsThenSucceeds(w, token, entry, compileOk, io) ==
    LET newValue == ToUpper(token)
        w1 == updateCurrentBuilder(w, newValue)
        r == RecompileMainWasm(w1, entry, compileOk)
    IN
    IF ~validateMode(newValue)
    THEN progress(w, Msg("invalid mode", newValue, "Mode : Invalid Valid"))
    ELSE IF requiresTinyGo(newValue) /\ ~w.tinyGoInstalled
    THEN progress(w, Msg("error", <<>>, handleTinyGoMissing))
    ELSE IF ~entry
    THEN progress(w1, Msg("success", newValue, getSuccessMessage(newValue)))
    ELSE IF r.err # "nil"
    THEN progress(progress(r.w, Msg("warning", <<>>, r.err)),
                  Msg("success", newValue, getSuccessMessage(newValue)))
    ELSE progress(wasmProjectWriteOrReplaceWasmExecJsOutput(r.w, io),
                  Msg("success", newValue, getSuccessMessage(newValue)))

Change(w, token, entry, compileOk, io) ==
    LET newValue == ToUpper(token)
        w1 == updateCurrentBuilder(w, newValue)
        r == RecompileMainWasm(w1, entry, compileOk)
    IN
    IF ~validateMode(newValue)
    THEN progress(w, Msg("invalid mode", newValue, "Mode : Invalid Valid"))
    ELSE IF requiresTinyGo(newValue) /\ ~w.tinyGoInstalled
    THEN progress(w, Msg("error", <<>>, handleTinyGoMissing))
    ELSE IF ~entry
    THEN progress(w1, Msg("success", newValue, getSuccessMessage(newValue)))
    ELSE IF r.err # "nil"
    THEN progress(r.w, Msg("warning", <<>>, r.err))
    ELSE progress(wasmProjectWriteOrReplaceWasmExecJsOutput(r.w, io),
                  Msg("success", newValue, getSuccessMessage(newValue)))

\* ------------------------------------------------------------ MCP tools
\* args["mode"] is [kind, value]: kind is "missing" when the key is absent,
\* "string" when the value is a string, "number" for a value of another
\* type.
\* as wasm_set_mode, but a Change that does not end in success is an error
wasm_set_mode_ReportsChange(w, arg, entry, compileOk, io) ==
    LET c == Change(w, arg.value, entry, compileOk, io) IN
    IF arg.kind = "missing"
    THEN [w |-> w, called |-> "-",
          err |-> "missing required parameter 'mode'. Use L, M, or S"]
    ELSE IF arg.kind # "string"
    THEN [w |-> w, called |-> "-",
          err |-> "parameter 'mode' must be a string (L, M, or S)"]
    ELSE [w |-> c, called |-> "Change",
          err |-> IF c.events[Len(c.events)].msg.kind = "success"
                  THEN "nil" ELSE "mode change failed"]

\* [w, called, err]: the Execute function of the tool wasm_set_mode
wasm_set_mode(w, arg, entry, compileOk, io) ==
    IF arg.kind = "missing"
    THEN [w |-> w, called |-> "-",
          err |-> "missing required parameter 'mode'. Use L, M, or S"]
    ELSE IF arg.kind # "string"
    THEN [w |-> w, called |-> "-",
          err |-> "parameter 'mode' must be a string (L, M, or S)"]
    ELSE [w |-> Change(w, arg.value, entry, compileOk, io),
          called |-> "Change", err |-> "nil"]

\* ---------------------------------------------------------- output path
\* A path is a sequence of symbols: "/" and "\\" are the separators, "." is
\* a dot, every other symbol is a run of other characters.
\* the components of s between "/" symbols
RECURSIVE SplitPath(_)
SplitPath(s) ==
    IF ~Contains(s, "/") THEN <<s>>
    ELSE LET i == CHOOSE k \in 1..Len(s) :
                     s[k] = "/" /\ \A j \in 1..(k - 1) : s[j] # "/"
         IN <<SubSeq(s, 1, i - 1)>> \o SplitPath(SubSeq(s, i + 1, Len(s)))

RECURSIVE JoinPath(_)
JoinPath(parts) ==
    IF parts = <<>> THEN <<>>
    ELSE IF Len(parts) = 1 THEN parts[1]
    ELSE parts[1] \o <<"/">> \o JoinPath(Tail(parts))

\* path.Clean for paths without ".." components
Clean(s) ==
    LET kept == SelectSeq(SplitPath(s),
                          LAMBDA c : c # <<>> /\ c # <<".">>)
        rooted == s # <<>> /\ s[1] = "/"
    IN IF rooted THEN <<"/">> \o JoinPath(kept)
       ELSE IF kept = <<>> THEN <<".">>
       ELSE JoinPath(kept)

\* path.Join and, on a build for Unix, filepath.Join
PathJoin(elems) ==
    LET used == SelectSeq(elems, LAMBDA e : e # <<>>) IN
    IF used = <<>> THEN <<>> ELSE Clean(JoinPath(used))

TrimPrefix(s, p) ==
    IF HasPrefix(s, p) THEN SubSeq(s, Len(p) + 1, Len(s)) ELSE s

\* strings.ReplaceAll(s, "\\", "/")
ToForwardSlashes(s) ==
    [i \in 1..Len(s) |-> IF s[i] = "\\" THEN "/" ELSE s[i]]

\* filepath.IsAbs on a build for Unix
IsAbs(s) == s # <<>> /\ s[1] = "/"

\* the configuration: [AppRootDir, OutputDir, OutputName]
\* as BuilderConfig, but the production builder has an output name of
\* its own
BuilderConfig_ProductionOwnName(builder, cfg) ==
    [Command |-> IF builder = "builderCoding" THEN "go" ELSE "tinygo",
     OutName |-> IF builder = "builderProduction"
                 THEN cfg.OutputName \o <<".", "min">>
                 ELSE cfg.OutputName,
     Extension |-> <<".", "wasm">>,
     OutFolderRelativePath |-> PathJoin(<<cfg.AppRootDir, cfg.OutputDir>>)]

\* the gobuild.Config that builderWasmInit gives to a builder
BuilderConfig(builder, cfg) ==
    [Command |-> IF builder = "builderCoding" THEN "go" ELSE "tinygo",
     OutName |-> cfg.OutputName,
     Extension |-> <<".", "wasm">>,
     OutFolderRelativePath |-> PathJoin(<<cfg.AppRootDir, cfg.OutputDir>>)]

\* gobuild's FinalOutputPath: the output folder joined with the file name
FinalOutputPath(bc) ==
    PathJoin(<<bc.OutFolderRelativePath, bc.OutName \o bc.Extension>>)

OutputRelativePath(w, cfg) ==
    LET fullPath == FinalOutputPath(BuilderConfig(w.activeBuilder, cfg)) IN
    IF HasPrefix(fullPath, cfg.AppRootDir)
    THEN ToForwardSlashes(
             TrimPrefix(
                 TrimPrefix(
                     TrimPrefix(TrimPrefix(fullPath, cfg.AppRootDir),
                                <<"/">>),
                     <<"/">>),
                 <<"\\">>))
    ELSE ToForwardSlashes(
             PathJoin(<<cfg.OutputDir, cfg.OutputName \o <<".", "wasm">>>>))

\* -------------------------------------------------------- file events
MainInputFile == <<"main", ".go">>

HasSuffix(s, p) ==
    Len(s) >= Len(p) /\ SubSeq(s, Len(s) - Len(p) + 1, Len(s)) = p

\* as ShouldCompileToWasm, but only the entry file is accepted
ShouldCompileToWasm_EntryOnly(fileName, filePath) ==
    fileName = MainInputFile

ShouldCompileToWasm(fileName, filePath) ==
    fileName = MainInputFile \/ HasSuffix(fileName, <<".wasm", ".go">>)

\* as NewFileEvent, but the path is looked at after the filters
NewFileEvent_PathLast(w, fileName, extension, filePath, event, compileOk) ==
    IF extension # ".go" THEN [w |-> w, err |-> "nil"]
    ELSE IF event # "write" /\ event # "create"
    THEN [w |-> w, err |-> "nil"]
    ELSE IF ~ShouldCompileToWasm(fileName, filePath)
    THEN [w |-> w, err |-> "nil"]
    ELSE IF filePath = <<>>
    THEN [w |-> w, err |-> "NewFileEvent Wasm filePath is empty"]
    ELSE IF w.activeBuilder = "nil"
    THEN [w |-> w, err |-> "builder not initialized"]
    ELSE LET r == CompileProgram(w, compileOk) IN
         [w |-> r.w,
          err |-> IF r.err # "nil"
                  THEN "compiling to WebAssembly error: exit status 1"
                  ELSE "nil"]

\* [w, err]
NewFileEvent(w, fileName, extension, filePath, event, compileOk) ==
    IF filePath = <<>>
    THEN [w |-> w, err |-> "NewFileEvent Wasm filePath is empty"]
    ELSE IF extension # ".go" THEN [w |-> w, err |-> "nil"]
    ELSE IF event # "write" /\ event # "create"
    THEN [w |-> w, err |-> "nil"]
    ELSE IF ~ShouldCompileToWasm(fileName, filePath)
    THEN [w |-> w, err |-> "nil"]
    ELSE IF w.activeBuilder = "nil"
    THEN [w |-> w, err |-> "builder not initialized"]
    ELSE LET r == CompileProgram(w, compileOk) IN
         [w |-> r.w,
          err |-> IF r.err # "nil"
                  THEN "compiling to WebAssembly error: exit status 1"
                  ELSE "nil"]

\* --------------------------------------------- detection from file events
\* The handler that detects the project from the files it is told about.
\* d is [w, goFunc, jsFunc]: the orchestrator and its two function fields,
\* each "active" or "inactive".
mainInputFile == <<"main", ".wasm", ".go">>

\* filepath.Join(AppRootDir, WebFilesRootRelative, WebFilesSubRelative)
webSub == PathJoin(<<<<".">>, <<"web">>, <<"public">>>>)

wasmDetectionFuncFromJsFileActive(d, fileName, extension, filePath, event, file) ==
    LET goCount == SigCount(file.content, wasm_execGoSignatures)
        tinyCount == SigCount(file.content, wasm_execTinyGoSignatures)
        found(tiny) ==
            [w |-> ClearJavaScriptCache(
                       [d.w EXCEPT !.tinyGoCompiler = tiny,
                                   !.wasmProject = TRUE]),
             goFunc |-> "inactive", jsFunc |-> "inactive"]
    IN
    IF extension # ".js" \/ event # "create" THEN d
    ELSE IF ~HasPrefix(Clean(filePath), Clean(webSub)) THEN d
    ELSE IF ~file.exists THEN d
    ELSE IF tinyCount > goCount /\ tinyCount > 0 THEN found(TRUE)
    ELSE IF goCount > tinyCount /\ goCount > 0 THEN found(FALSE)
    ELSE IF tinyCount > 0 /\ goCount = 0 THEN found(TRUE)
    ELSE IF goCount > 0 /\ tinyCount = 0 THEN found(FALSE)
    ELSE d

wasmDetectionFuncFromGoFileActive(d, fileName, filePath) ==
    LET wasmDetected ==
            /\ fileName = mainInputFile
                 \/ HasSuffix(fileName, <<".wasm", ".go">>)
            /\ ~d.w.wasmProject
    IN
    IF wasmDetected
    THEN [d EXCEPT !.w = Emit([d.w EXCEPT !.wasmProject = TRUE],
                              Ev("vscode", "-", NoMsg, <<>>)),
                   !.goFunc = "inactive"]
    ELSE d

\* [d, err]: NewFileEvent of the version that calls the two fields
NewFileEventDetecting(d, fileName, extension, filePath, event, file, compileOk) ==
    LET d1 == IF d.jsFunc = "active"
              THEN wasmDetectionFuncFromJsFileActive(
                       d, fileName, extension, filePath, event, file)
              ELSE d
        d2 == IF d1.goFunc = "active"
              THEN wasmDetectionFuncFromGoFileActive(d1, fileName, filePath)
              ELSE d1
        r == CompileProgram(d2.w, compileOk)
    IN
    IF filePath = <<>>
    THEN [d |-> d, err |-> "NewFileEvent Wasm filePath is empty"]
    ELSE IF ~(fileName = mainInputFile
                \/ HasSuffix(fileName, <<".wasm", ".go">>))
    THEN [d |-> d2, err |-> "nil"]
    ELSE IF event # "write" /\ event # "create"
    THEN [d |-> d2, err |-> "nil"]
    ELSE IF d2.w.activeBuilder = "nil"
    THEN [d |-> d2, err |-> "builder not initialized"]
    ELSE [d |-> [d2 EXCEPT !.w = r.w],
          err |-> IF r.err # "nil"
                  THEN "compiling to WebAssembly error: exit status 1"
                  ELSE "nil"]

\* ------------------------------------------------------------ scaffold
\* the Go code of templates/basic_wasm_client.md
BasicWasmClient ==
    <<"//go:build wasm", "\n", "package main", "\n", "func main() {", "\n",
      "select {}", "\n", "}", "\n">>

\* as createDefaultWasmFileAt, but an existing file is replaced
createDefaultWasmFileAt_Overwrites(w, target, io) ==
    IF io # "ok"
    THEN [w |-> w, target |-> target,
          err |-> "extracting go code from markdown"]
    ELSE [w |-> [w EXCEPT !.wasmProject = TRUE],
          target |-> File(BasicWasmClient), err |-> "nil"]

\* [w, target, err]: target is the entry file afterwards
createDefaultWasmFileAt(w, target, io) ==
    IF target.exists THEN [w |-> w, target |-> target, err |-> "nil"]
    ELSE IF io # "ok"
    THEN [w |-> w, target |-> target,
          err |-> "extracting go code from markdown"]
    ELSE [w |-> [w EXCEPT !.wasmProject = TRUE],
          target |-> File(BasicWasmClient), err |-> "nil"]

\* [w, entry, err]: entry tells whether the entry file exists afterwards
createDefaultWasmFile(w, entry, io) ==
    IF entry THEN [w |-> w, entry |-> TRUE, err |-> "nil"]
    ELSE IF io # "ok"
    THEN [w |-> w, entry |-> FALSE,
          err |-> "extracting go code from markdown"]
    ELSE [w |-> [w EXCEPT !.wasmProject = TRUE], entry |-> TRUE,
          err |-> "nil"]

\* ------------------------------------------------------------ inputs
\* what JavascriptForInitializing writes for a mode and a payload
GeneratedJs(mode, payload) ==
    normalizeJs(DefaultHeader(mode) \o payload \o DefaultFooter)

\* wasm_exec.js as the first construction may find it
InitialArtifacts ==
    { NoFile,
      File(<<"console.log", "\n">>),
      File(GeneratedJs(<<"L">>, embeddedWasmExecGo)),
      File(GeneratedJs(<<"M">>, embeddedWasmExecTinyGo)),
      File(GeneratedJs(<<"S">>, embeddedWasmExecTinyGo)),
      File(embeddedWasmExecTinyGo),
      File(DefaultHeader(<<"x">>) \o embeddedWasmExecTinyGo),
      File(<<"runtime.wasmExit", "\n", "tinygo_js", "\n">>) }

\* mode tokens a caller passes to Change
Tokens ==
    { <<"L">>, <<"M">>, <<"S">>, <<"m">>, <<"X">>, <<>> }

CustomHeader == <<"//", " ", "Custom", "\n">>

CustomFooter == <<"console.log", "\n">>

\* the variadic arguments of JavascriptForInitializing
Customizations == { <<>>, <<CustomHeader>>, <<CustomHeader, CustomFooter>> }

IOResults == {"ok", "mkdir_fails", "write_fails"}

FileNames == { MainInputFile, <<"util", ".go">> }

FilePaths == { <<>>, <<"web", "/">> }

Events == {"create", "write", "remove", "rename"}

\* --------------------------------------------------------- state machine
\* the orchestrator and the artifact as one record, for the operators above
Cur ==
    [currentMode |-> currentMode,
     activeBuilder |-> activeBuilder,
     tinyGoCompiler |-> tinyGoCompiler,
     wasmProject |-> wasmProject,
     tinyGoInstalled |-> tinyGoInstalled,
     cache |-> cache,
     artifact |-> artifact,
     events |-> <<>>]

Set(w) ==
    /\ currentMode' = w.currentMode
    /\ activeBuilder' = w.activeBuilder
    /\ tinyGoCompiler' = w.tinyGoCompiler
    /\ wasmProject' = w.wasmProject
    /\ tinyGoInstalled' = w.tinyGoInstalled
    /\ cache' = w.cache
    /\ artifact' = w.artifact

\* the record of an operation: its name, its inputs, its effects in order
\* and what it returned
Op(op, token, cust, name, path, event, compileOk, io, events, js, err) ==
    [op |-> op, token |-> token, cust |-> cust, name |-> name,
     path |-> path, event |-> event, compileOk |-> compileOk, io |-> io,
     events |-> events, js |-> js, err |-> err]

\* no JavascriptForInitializing call is in progress
Idle == [pc |-> "idle", mode |-> <<>>, cust |-> <<>>, raw |-> <<>>,
         header |-> <<>>]

\* An answer of the environment (the compiler's verdict, the result of the
\* file system calls) exists only when the operation asked for it: an
\* answer that was not consumed is recorded as its default.
Init ==
    \E file \in InitialArtifacts, entry \in BOOLEAN, other \in BOOLEAN,
       tinygo \in BOOLEAN, io \in IOResults :
        LET w == New(file, entry, other, tinygo, io) IN
        /\ io = "ok" \/ w # New(file, entry, other, tinygo, "ok")
        /\ currentMode = w.currentMode
        /\ activeBuilder = w.activeBuilder
        /\ tinyGoCompiler = w.tinyGoCompiler
        /\ wasmProject = w.wasmProject
        /\ tinyGoInstalled = w.tinyGoInstalled
        /\ cache = w.cache
        /\ artifact = w.artifact
        /\ mainFile = entry
        /\ otherWasmGo = other
        /\ tinygoOnPath = tinygo
        /\ last = Op("New", <<>>, <<>>, <<>>, <<>>, "-", TRUE, io,
                     w.events, <<>>, "nil")
        /\ steps = 0
        /\ call = Idle
        /\ wasmDetectionFuncFromGoFile = "inactive"
        /\ wasmDetectionFuncFromJsFile = "inactive"

Tick == steps < MaxSteps /\ steps' = steps + 1

DoChange(token, compileOk, io) ==
    \E w \in {Change(Cur, token, mainFile, compileOk, io)} :
    /\ Tick
    /\ compileOk \/ w # Change(Cur, token, mainFile, TRUE, io)
    /\ io = "ok" \/ w # Change(Cur, token, mainFile, compileOk, "ok")
    /\ Set(w)
    /\ last' = Op("Change", token, <<>>, <<>>, <<>>, "-", compileOk, io,
                  w.events, <<>>, "nil")
    /\ UNCHANGED <<wasmDetectionFuncFromGoFile,
                   wasmDetectionFuncFromJsFile,
                   mainFile, otherWasmGo, tinygoOnPath, call>>

DoJavascriptForInitializing(cust) ==
    \E r \in {JavascriptForInitializing(Cur, cust)} :
    /\ Tick
    /\ Set(r.w)
    /\ last' = Op("JavascriptForInitializing", <<>>, cust, <<>>, <<>>, "-",
                  TRUE, "ok", r.w.events, r.js, r.err)
    /\ UNCHANGED <<wasmDetectionFuncFromGoFile,
                   wasmDetectionFuncFromJsFile,
                   mainFile, otherWasmGo, tinygoOnPath, call>>

DoClearJavaScriptCache ==
    /\ Tick
    /\ Set(ClearJavaScriptCache(Cur))
    /\ last' = Op("ClearJavaScriptCache", <<>>, <<>>, <<>>, <<>>, "-",
                  TRUE, "ok", <<>>, <<>>, "nil")
    /\ UNCHANGED <<wasmDetectionFuncFromGoFile,
                   wasmDetectionFuncFromJsFile,
                   mainFile, otherWasmGo, tinygoOnPath, call>>

DoNewFileEvent(name, path, event, compileOk) ==
    \E r \in {NewFileEvent(Cur, name, ".go", path, event, compileOk)} :
    /\ Tick
    /\ compileOk \/ r # NewFileEvent(Cur, name, ".go", path, event, TRUE)
    /\ Set(r.w)
    /\ last' = Op("NewFileEvent", <<>>, <<>>, name, path, event, compileOk,
                  "ok", r.w.events, <<>>, r.err)
    /\ UNCHANGED <<wasmDetectionFuncFromGoFile,
                   wasmDetectionFuncFromJsFile,
                   mainFile, otherWasmGo, tinygoOnPath, call>>

\* the process is started again on the same project tree
Restart(io) ==
    \E w \in {New(artifact, mainFile, otherWasmGo, tinygoOnPath, io)} :
    /\ Tick
    /\ io = "ok" \/ w # New(artifact, mainFile, otherWasmGo, tinygoOnPath, "ok")
    /\ Set(w)
    /\ last' = Op("New", <<>>, <<>>, <<>>, <<>>, "-", TRUE, io,
                  w.events, <<>>, "nil")
    /\ UNCHANGED <<wasmDetectionFuncFromGoFile,
                   wasmDetectionFuncFromJsFile,
                   mainFile, otherWasmGo, tinygoOnPath, call>>

DoCreateDefaultWasmFile(io) ==
    \E r \in {createDefaultWasmFile(Cur, mainFile, io)} :
    /\ Tick
    /\ io = "ok" \/ r # createDefaultWasmFile(Cur, mainFile, "ok")
    /\ io # "write_fails"
    /\ Set(r.w)
    /\ mainFile' = r.entry
    /\ last' = Op("createDefaultWasmFile", <<>>, <<>>, <<>>, <<>>, "-",
                  TRUE, io, r.w.events, <<>>, r.err)
    /\ UNCHANGED <<wasmDetectionFuncFromGoFile,
                   wasmDetectionFuncFromJsFile,
                   otherWasmGo, tinygoOnPath, call>>

\* the user creates or removes the entry file
EditEntryFile ==
    /\ Tick
    /\ mainFile' = ~mainFile
    /\ last' = Op("EditEntryFile", <<>>, <<>>, <<>>, <<>>, "-", TRUE, "ok",
                  <<>>, <<>>, "nil")
    /\ UNCHANGED <<wasmDetectionFuncFromGoFile,
                   wasmDetectionFuncFromJsFile,
                   currentMode, activeBuilder, tinyGoCompiler, wasmProject,
                   tinyGoInstalled, cache, artifact, otherWasmGo,
                   tinygoOnPath, call>>

Next ==
    \/ \E token \in Tokens, compileOk \in BOOLEAN, io \in IOResults :
          DoChange(token, compileOk, io)
    \/ \E cust \in Customizations : DoJavascriptForInitializing(cust)
    \/ DoClearJavaScriptCache
    \/ \E name \in FileNames, path \in FilePaths, event \in Events,
          compileOk \in BOOLEAN : DoNewFileEvent(name, path, event, compileOk)
    \/ \E io \in IOResults : Restart(io)
    \/ \E io \in IOResults : DoCreateDefaultWasmFile(io)
    \/ EditEntryFile

Spec == Init /\ [][Next]_vars

\* ------------------------------------------------ detection on its own
\* first lines a wasm_exec.js found on disk may have
DetectHeaders ==
    { <<>>,
      DefaultHeader(<<"L">>),
      DefaultHeader(<<"M">>),
      DefaultHeader(<<"S">>),
      DefaultHeader(<<"x">>),
      HeaderPrefix \o <<"v1", "\n">>,
      <<"//", " ", "Custom", "\n">> }

\* what follows the first line: no signature, one family only, both
\* families with one ahead, both families level
DetectBodies ==
    { <<"console.log", "\n">>,
      embeddedWasmExecGo,
      embeddedWasmExecTinyGo,
      <<"runtime.wasmExit", "\n">>,
      <<"runtime.wasmExit", "\n", "tinygo_js", "\n">>,
      <<"runtime.wasmExit", "\n", "runtime.clearTimeoutEvent", "\n",
        "tinygo_js", "\n">>,
      <<"runtime.wasmExit", "\n", "runtime.ticks", "\n", "tinygo_js",
        "\n">> }

DetectArtifacts ==
    {NoFile} \cup {File(h \o b) : h \in DetectHeaders, b \in DetectBodies}

\* the record of a construction: the wasm_exec.js it found
OpNew(file, io, events) ==
    Op("New", <<>>, <<>>, <<>>, <<>>,
       IF file.exists THEN "exists" ELSE "absent", TRUE, io, events,
       file.content, "nil")

InitDetect ==
    \E file \in DetectArtifacts, entry \in BOOLEAN, other \in BOOLEAN,
       tinygo \in BOOLEAN, io \in IOResults :
        LET w == New(file, entry, other, tinygo, io) IN
        /\ io = "ok" \/ w # New(file, entry, other, tinygo, "ok")
        /\ currentMode = w.currentMode
        /\ activeBuilder = w.activeBuilder
        /\ tinyGoCompiler = w.tinyGoCompiler
        /\ wasmProject = w.wasmProject
        /\ tinyGoInstalled = w.tinyGoInstalled
        /\ cache = w.cache
        /\ artifact = w.artifact
        /\ mainFile = entry
        /\ otherWasmGo = other
        /\ tinygoOnPath = tinygo
        /\ last = OpNew(file, io, w.events)
        /\ steps = 0
        /\ call = Idle
        /\ wasmDetectionFuncFromGoFile = "inactive"
        /\ wasmDetectionFuncFromJsFile = "inactive"

\* the process is started again on the same project tree
Redetect(io) ==
    \E w \in {New(artifact, mainFile, otherWasmGo, tinygoOnPath, io)} :
    /\ Tick
    /\ io = "ok" \/ w # New(artifact, mainFile, otherWasmGo, tinygoOnPath, "ok")
    /\ Set(w)
    /\ last' = OpNew(artifact, io, w.events)
    /\ UNCHANGED <<wasmDetectionFuncFromGoFile,
                   wasmDetectionFuncFromJsFile,
                   mainFile, otherWasmGo, tinygoOnPath, call>>

NextDetect ==
    \/ \E io \in IOResults : Redetect(io)
    \/ EditEntryFile

SpecDetect == InitDetect /\ [][NextDetect]_vars

\* ------------------------------------------- the cache over many calls
\* Mode switches, generator calls and cache clears on one instance.  Here
\* last.events is the log of the whole behaviour: one "generate" entry for
\* each text JavascriptForInitializing produced (called directly, or by
\* Change when it writes wasm_exec.js) with the mode it was produced in,
\* one "change" entry for each Change, one "clear" entry for each
\* ClearJavaScriptCache.
CacheArtifacts ==
    { File(GeneratedJs(<<"L">>, embeddedWasmExecGo)),
      File(GeneratedJs(<<"S">>, embeddedWasmExecTinyGo)),
      File(DefaultHeader(<<"x">>) \o embeddedWasmExecTinyGo) }

CacheTokens == { <<"L">>, <<"M">>, <<"S">> }

CacheCustomizations == { <<>>, <<CustomHeader>> }

\* the "write" effects of a Change as "generate" entries of mode m
Generated(events, m) ==
    LET writes == SelectSeq(events, LAMBDA ev : ev.e = "write") IN
    [i \in 1..Len(writes) |->
        Ev("generate", "-", Msg("plain", m, "nil"), writes[i].js)]

InitCache ==
    \E file \in CacheArtifacts, entry \in BOOLEAN, tinygo \in BOOLEAN :
        LET w == New(file, entry, FALSE, tinygo, "ok") IN
        /\ currentMode = w.currentMode
        /\ activeBuilder = w.activeBuilder
        /\ tinyGoCompiler = w.tinyGoCompiler
        /\ wasmProject = w.wasmProject
        /\ tinyGoInstalled = w.tinyGoInstalled
        /\ cache = w.cache
        /\ artifact = w.artifact
        /\ mainFile = entry
        /\ otherWasmGo = FALSE
        /\ tinygoOnPath = tinygo
        /\ last = Op("New", <<>>, <<>>, <<>>, <<>>, "-", TRUE, "ok",
                     <<>>, <<>>, "nil")
        /\ steps = 0
        /\ call = Idle
        /\ wasmDetectionFuncFromGoFile = "inactive"
        /\ wasmDetectionFuncFromJsFile = "inactive"

CacheTick == steps < MaxCacheSteps /\ steps' = steps + 1

CacheChange(token) ==
    \E w \in {Change(Cur, token, mainFile, TRUE, "ok")} :
    /\ CacheTick
    /\ Set(w)
    /\ last' = Op("Change", token, <<>>, <<>>, <<>>, "-", TRUE, "ok",
                  last.events
                    \o <<Ev("change", "-", Msg("mode", Value(w), "-"), <<>>)>>
                    \o Generated(w.events, Value(w)),
                  <<>>, "nil")
    /\ UNCHANGED <<wasmDetectionFuncFromGoFile,
                   wasmDetectionFuncFromJsFile,
                   mainFile, otherWasmGo, tinygoOnPath, call>>

CacheGenerate(cust) ==
    \E r \in {JavascriptForInitializing(Cur, cust)} :
    /\ CacheTick
    /\ Set(r.w)
    /\ last' = Op("JavascriptForInitializing", <<>>, cust, <<>>, <<>>, "-",
                  TRUE, "ok",
                  Append(last.events,
                         Ev("generate", "-",
                            Msg(IF cust = <<>> THEN "plain" ELSE "custom",
                                Value(Cur), r.err),
                            r.js)),
                  r.js, r.err)
    /\ UNCHANGED <<wasmDetectionFuncFromGoFile,
                   wasmDetectionFuncFromJsFile,
                   mainFile, otherWasmGo, tinygoOnPath, call>>

CacheClear ==
    /\ CacheTick
    /\ Set(ClearJavaScriptCache(Cur))
    /\ last' = Op("ClearJavaScriptCache", <<>>, <<>>, <<>>, <<>>, "-",
                  TRUE, "ok",
                  Append(last.events, Ev("clear", "-", NoMsg, <<>>)),
                  <<>>, "nil")
    /\ UNCHANGED <<wasmDetectionFuncFromGoFile,
                   wasmDetectionFuncFromJsFile,
                   mainFile, otherWasmGo, tinygoOnPath, call>>

NextCache ==
    \/ \E token \in CacheTokens : CacheChange(token)
    \/ \E cust \in CacheCustomizations : CacheGenerate(cust)
    \/ CacheClear

SpecCache == InitCache /\ [][NextCache]_vars

\* ------------------------------- a generator call and Change interleaved
\* JavascriptForInitializing in the steps in which it reads the fields of
\* the orchestrator, with Change calls of another goroutine between them.
\* There is no lock: a read sees the value of the latest completed write.
ConcArtifacts ==
    { File(GeneratedJs(<<"L">>, embeddedWasmExecGo)),
      File(GeneratedJs(<<"M">>, embeddedWasmExecTinyGo)) }

InitConc ==
    \E file \in ConcArtifacts, entry \in BOOLEAN, tinygo \in BOOLEAN :
        LET w == New(file, entry, FALSE, tinygo, "ok") IN
        /\ currentMode = w.currentMode
        /\ activeBuilder = w.activeBuilder
        /\ tinyGoCompiler = w.tinyGoCompiler
        /\ wasmProject = w.wasmProject
        /\ tinyGoInstalled = w.tinyGoInstalled
        /\ cache = w.cache
        /\ artifact = w.artifact
        /\ mainFile = entry
        /\ otherWasmGo = FALSE
        /\ tinygoOnPath = tinygo
        /\ last = Op("New", <<>>, <<>>, <<>>, <<>>, "-", TRUE, "ok",
                     <<>>, <<>>, "nil")
        /\ steps = 0
        /\ call = Idle
        /\ wasmDetectionFuncFromGoFile = "inactive"
        /\ wasmDetectionFuncFromJsFile = "inactive"

ConcTick == steps < MaxConcSteps /\ steps' = steps + 1

\* the record of a generator call: the mode it captured on entry, and
\* whether it is running, returned the cache, or stored a new text
OpJfi(mode, stage, js, err) ==
    Op("JavascriptForInitializing", mode, <<>>, <<>>, <<>>, stage, TRUE,
       "ok", <<>>, js, err)

\* entry: the project check, mode := h.Value(), the cache look-up
JfiEnter ==
    /\ call.pc = "idle"
    /\ ConcTick
    /\ LET mode == Value(Cur)
           hit == \/ mode = BuildLargeSizeShortcut /\ cache.C # <<>>
                  \/ mode = BuildMediumSizeShortcut /\ cache.D # <<>>
                  \/ mode = BuildSmallSizeShortcut /\ cache.P # <<>>
       IN
       IF ~WasmProjectTinyGoJsUse(Cur)[1]
       THEN /\ call' = Idle
            /\ last' = OpJfi(mode, "returned", <<>>, "nil")
       ELSE IF hit
       THEN /\ call' = Idle
            /\ last' = OpJfi(mode, "returned",
                             cache[SlotOf(Cur, mode)], "nil")
       ELSE /\ call' = [Idle EXCEPT !.pc = "load", !.mode = mode]
            /\ last' = OpJfi(mode, "running", <<>>, "nil")
    /\ UNCHANGED <<wasmDetectionFuncFromGoFile,
                   wasmDetectionFuncFromJsFile,
                   currentMode, activeBuilder, tinyGoCompiler, wasmProject,
                   tinyGoInstalled, cache, artifact, mainFile, otherWasmGo,
                   tinygoOnPath>>

\* wasmJs, err := h.getWasmExecContent()
JfiLoad ==
    /\ call.pc = "load"
    /\ ConcTick
    /\ LET raw == getWasmExecContent(Cur) IN
       IF raw.err # "nil"
       THEN /\ call' = Idle
            /\ last' = OpJfi(call.mode, "returned", <<>>, raw.err)
       ELSE /\ call' = [call EXCEPT !.pc = "header", !.raw = raw.js]
            /\ last' = OpJfi(call.mode, "running", <<>>, "nil")
    /\ UNCHANGED <<wasmDetectionFuncFromGoFile,
                   wasmDetectionFuncFromJsFile,
                   currentMode, activeBuilder, tinyGoCompiler, wasmProject,
                   tinyGoInstalled, cache, artifact, mainFile, otherWasmGo,
                   tinygoOnPath>>

\* header = fmt.Sprintf("// TinyWasm: mode=%s\n", h.Value())
JfiHeader ==
    /\ call.pc = "header"
    /\ ConcTick
    /\ call' = [call EXCEPT !.pc = "store",
                            !.header = DefaultHeader(Value(Cur))]
    /\ last' = OpJfi(call.mode, "running", <<>>, "nil")
    /\ UNCHANGED <<wasmDetectionFuncFromGoFile,
                   wasmDetectionFuncFromJsFile,
                   currentMode, activeBuilder, tinyGoCompiler, wasmProject,
                   tinyGoInstalled, cache, artifact, mainFile, otherWasmGo,
                   tinygoOnPath>>

\* the footer, normalizeJs, and the store in the slot of the captured mode
JfiStore ==
    /\ call.pc = "store"
    /\ ConcTick
    /\ call' = Idle
    /\ IF activeBuilder = "nil"
       THEN /\ cache' = cache
            /\ last' = OpJfi(call.mode, "returned", <<>>,
                             "activeBuilder not initialized")
       ELSE LET normalized ==
                   normalizeJs(call.header \o call.raw \o DefaultFooter)
            IN
            /\ cache' = [cache EXCEPT ![SlotOf(Cur, call.mode)] = normalized]
            /\ last' = OpJfi(call.mode, "stored", normalized, "nil")
    /\ UNCHANGED <<wasmDetectionFuncFromGoFile,
                   wasmDetectionFuncFromJsFile,
                   currentMode, activeBuilder, tinyGoCompiler, wasmProject,
                   tinyGoInstalled, artifact, mainFile, otherWasmGo,
                   tinygoOnPath>>

\* a whole Change call, at any point of the generator call
ConcChange(token) ==
    \E w \in {Change(Cur, token, mainFile, TRUE, "ok")} :
    /\ ConcTick
    /\ Set(w)
    /\ last' = Op("Change", token, <<>>, <<>>, <<>>, "-", TRUE, "ok",
                  w.events, <<>>, "nil")
    /\ UNCHANGED <<wasmDetectionFuncFromGoFile,
                   wasmDetectionFuncFromJsFile,
                   mainFile, otherWasmGo, tinygoOnPath, call>>

NextConc ==
    \/ JfiEnter
    \/ JfiLoad
    \/ JfiHeader
    \/ JfiStore
    \/ \E token \in CacheTokens : ConcChange(token)

SpecConc == InitConc /\ [][NextConc]_vars

\* ------------------------------------------ the generator on any receiver
\* JavascriptForInitializing as a function of its receiver.  The receiver
\* is any TinyWasm value code of the package can hold: one built by New, or
\* a struct literal whose builders were never created (activeBuilder nil)
\* and which createDefaultWasmFile has marked as a WASM project.
GenModes == { <<>>, <<"L">>, <<"M">>, <<"S">> }

GenCaches ==
    { [C |-> <<>>, D |-> <<>>, P |-> <<>>],
      [C |-> GeneratedJs(<<"L">>, embeddedWasmExecGo), D |-> <<>>,
       P |-> <<>>],
      [C |-> <<>>, D |-> GeneratedJs(<<"M">>, embeddedWasmExecTinyGo),
       P |-> <<>>],
      [C |-> <<>>, D |-> <<>>,
       P |-> GeneratedJs(<<"S">>, embeddedWasmExecTinyGo)] }

InitGen ==
    \E mode \in GenModes, built \in BOOLEAN, project \in BOOLEAN,
       tinygo \in BOOLEAN, slots \in GenCaches :
        /\ currentMode = mode
        /\ activeBuilder =
              IF ~built THEN "nil"
              ELSE CASE mode = BuildMediumSizeShortcut -> "builderDebug"
                     [] mode = BuildSmallSizeShortcut -> "builderProduction"
                     [] OTHER -> "builderCoding"
        /\ tinyGoCompiler = FALSE
        /\ wasmProject = project
        /\ tinyGoInstalled = tinygo
        /\ cache = slots
        /\ artifact = NoFile
        /\ mainFile = project
        /\ otherWasmGo = FALSE
        /\ tinygoOnPath = tinygo
        /\ last = Op("literal", <<>>, <<>>, <<>>, <<>>, "-", TRUE, "ok",
                     <<>>, <<>>, "nil")
        /\ steps = 0
        /\ call = Idle
        /\ wasmDetectionFuncFromGoFile = "inactive"
        /\ wasmDetectionFuncFromJsFile = "inactive"

GenGenerate(cust) ==
    \E r \in {JavascriptForInitializing(Cur, cust)} :
    /\ steps < MaxGenSteps
    /\ steps' = steps + 1
    /\ Set(r.w)
    /\ last' = Op("JavascriptForInitializing", <<>>, cust, <<>>, <<>>, "-",
                  TRUE, "ok", r.w.events, r.js, r.err)
    /\ UNCHANGED <<wasmDetectionFuncFromGoFile,
                   wasmDetectionFuncFromJsFile,
                   mainFile, otherWasmGo, tinygoOnPath, call>>

NextGen == \E cust \in Customizations : GenGenerate(cust)

SpecGen == InitGen /\ [][NextGen]_vars

\* ------------------------------------------------- the file event handler
\* NewFileEvent and ShouldCompileToWasm over every combination of their
\* arguments, called on a freshly constructed instance.
EventNames ==
    { MainInputFile, <<"util", ".go">>, <<"users", ".wasm", ".go">>,
      <<"x", ".wasm", ".go", ".bak">>, <<"readme", ".txt">>,
      <<"f.", "login", ".go">>, <<"b.", "service", ".go">> }

EventPaths ==
    { <<>>, <<"web", "/">>, <<"web", "/", "modules", "/", "users", "/">> }

EventExtensions == { ".go", ".js" }

InitEvents ==
    \E file \in CacheArtifacts, entry \in BOOLEAN, tinygo \in BOOLEAN :
        LET w == New(file, entry, FALSE, tinygo, "ok") IN
        /\ currentMode = w.currentMode
        /\ activeBuilder = w.activeBuilder
        /\ tinyGoCompiler = w.tinyGoCompiler
        /\ wasmProject = w.wasmProject
        /\ tinyGoInstalled = w.tinyGoInstalled
        /\ cache = w.cache
        /\ artifact = w.artifact
        /\ mainFile = entry
        /\ otherWasmGo = FALSE
        /\ tinygoOnPath = tinygo
        /\ last = Op("New", <<>>, <<>>, <<>>, <<>>, "-", TRUE, "ok",
                     <<>>, <<>>, "nil")
        /\ steps = 0
        /\ call = Idle
        /\ wasmDetectionFuncFromGoFile = "inactive"
        /\ wasmDetectionFuncFromJsFile = "inactive"

EventTick == steps < MaxEventSteps /\ steps' = steps + 1

EvShouldCompileToWasm(name, path) ==
    /\ EventTick
    /\ last' = Op("ShouldCompileToWasm", <<>>, <<>>, name, path, "-", TRUE,
                  "ok", <<>>, <<>>,
                  IF ShouldCompileToWasm(name, path) THEN "true"
                  ELSE "false")
    /\ UNCHANGED <<wasmDetectionFuncFromGoFile,
                   wasmDetectionFuncFromJsFile,
                   currentMode, activeBuilder, tinyGoCompiler, wasmProject,
                   tinyGoInstalled, cache, artifact, mainFile, otherWasmGo,
                   tinygoOnPath, call>>

EvNewFileEvent(name, extension, path, event, compileOk) ==
    \E r \in {NewFileEvent(Cur, name, extension, path, event, compileOk)} :
    /\ EventTick
    /\ compileOk
         \/ r # NewFileEvent(Cur, name, extension, path, event, TRUE)
    /\ Set(r.w)
    /\ last' = Op("NewFileEvent", <<extension>>, <<>>, name, path, event,
                  compileOk, "ok", r.w.events, <<>>, r.err)
    /\ UNCHANGED <<wasmDetectionFuncFromGoFile,
                   wasmDetectionFuncFromJsFile,
                   mainFile, otherWasmGo, tinygoOnPath, call>>

NextEvents ==
    \/ \E name \in EventNames, path \in EventPaths :
          EvShouldCompileToWasm(name, path)
    \/ \E name \in EventNames, extension \in EventExtensions,
          path \in EventPaths, event \in Events, compileOk \in BOOLEAN :
          EvNewFileEvent(name, extension, path, event, compileOk)

SpecEvents == InitEvents /\ [][NextEvents]_vars

\* ------------------------------------------------------ the scaffold
\* createDefaultWasmFile and the user's edits of the entry file.  mainFile
\* tells whether the entry file exists and last.js is its content.
EntryContents ==
    { <<"// ORIGINAL CONTENT DO NOT OVERWRITE">>,
      <<"package main", "\n", "func main() {}", "\n">>,
      BasicWasmClient }

EntryFiles == {NoFile} \cup { File(c) : c \in EntryContents }

InitScaffold ==
    \E target \in EntryFiles, mode \in GenModes, project \in BOOLEAN :
        /\ currentMode = mode
        /\ activeBuilder = "nil"
        /\ tinyGoCompiler = FALSE
        /\ wasmProject = project
        /\ tinyGoInstalled = FALSE
        /\ cache = [C |-> <<>>, D |-> <<>>, P |-> <<>>]
        /\ artifact = NoFile
        /\ mainFile = target.exists
        /\ otherWasmGo = FALSE
        /\ tinygoOnPath = FALSE
        /\ last = Op("literal", <<>>, <<>>, <<>>, <<>>, "-", TRUE, "ok",
                     <<>>, target.content, "nil")
        /\ steps = 0
        /\ call = Idle
        /\ wasmDetectionFuncFromGoFile = "inactive"
        /\ wasmDetectionFuncFromJsFile = "inactive"

ScaffoldTick == steps < MaxScaffoldSteps /\ steps' = steps + 1

\* the entry file as createDefaultWasmFile finds it
EntryFile == [exists |-> mainFile, content |-> last.js]

ScaffoldCreate(io) ==
    \E r \in {createDefaultWasmFileAt(Cur, EntryFile, io)} :
    /\ ScaffoldTick
    /\ io = "ok" \/ r # createDefaultWasmFileAt(Cur, EntryFile, "ok")
    /\ io # "write_fails"
    /\ Set(r.w)
    /\ mainFile' = r.target.exists
    /\ last' = Op("createDefaultWasmFile", <<>>, <<>>, <<>>, <<>>, "-",
                  TRUE, io, r.w.events, r.target.content, r.err)
    /\ UNCHANGED <<wasmDetectionFuncFromGoFile,
                   wasmDetectionFuncFromJsFile,
                   otherWasmGo, tinygoOnPath, call>>

\* the user writes or removes the entry file
ScaffoldEdit(target) ==
    /\ ScaffoldTick
    /\ target # EntryFile
    /\ mainFile' = target.exists
    /\ last' = Op("EditEntryFile", <<>>, <<>>, <<>>, <<>>, "-", TRUE, "ok",
                  <<>>, target.content, "nil")
    /\ UNCHANGED <<wasmDetectionFuncFromGoFile,
                   wasmDetectionFuncFromJsFile,
                   currentMode, activeBuilder, tinyGoCompiler, wasmProject,
                   tinyGoInstalled, cache, artifact, otherWasmGo,
                   tinygoOnPath, call>>

NextScaffold ==
    \/ \E io \in IOResults : ScaffoldCreate(io)
    \/ \E target \in EntryFiles : ScaffoldEdit(target)

SpecScaffold == InitScaffold /\ [][NextScaffold]_vars

\* ------------------------------------------------------ the output path
\* OutputRelativePath across mode changes.  The configuration of the
\* instance is kept in last: path is AppRootDir, name is OutputDir, cust is
\* OutputName; js is what OutputRelativePath returns after the operation.
AppRootDirs ==
    { <<"/", "test", "/", "project">>,
      <<"/", "test", "/", "project", "/">>,
      <<".">>,
      <<".", "/", "app">>,
      <<"C:", "\\", "project">> }

OutputDirs ==
    { <<"src", "/", "web", "/", "public">>,
      <<"build">>,
      <<".", "build">>,
      <<"deploy", "\\", "edgeworker">> }

OutputNames == { <<"main">>, <<"app">> }

PathConfig ==
    [AppRootDir |-> last.path, OutputDir |-> last.name,
     OutputName |-> last.cust]

InitPath ==
    \E root \in AppRootDirs, dir \in OutputDirs, out \in OutputNames,
       file \in CacheArtifacts, tinygo \in BOOLEAN :
        LET w == New(file, TRUE, FALSE, tinygo, "ok") IN
        /\ currentMode = w.currentMode
        /\ activeBuilder = w.activeBuilder
        /\ tinyGoCompiler = w.tinyGoCompiler
        /\ wasmProject = w.wasmProject
        /\ tinyGoInstalled = w.tinyGoInstalled
        /\ cache = w.cache
        /\ artifact = w.artifact
        /\ mainFile = TRUE
        /\ otherWasmGo = FALSE
        /\ tinygoOnPath = tinygo
        /\ last = Op("New", <<>>, out, dir, root, "-", TRUE, "ok", <<>>,
                     OutputRelativePath(
                         w, [AppRootDir |-> root, OutputDir |-> dir,
                             OutputName |-> out]),
                     "nil")
        /\ steps = 0
        /\ call = Idle
        /\ wasmDetectionFuncFromGoFile = "inactive"
        /\ wasmDetectionFuncFromJsFile = "inactive"

PathChange(token) ==
    \E w \in {Change(Cur, token, mainFile, TRUE, "ok")} :
    /\ steps < MaxPathSteps
    /\ steps' = steps + 1
    /\ Set(w)
    /\ last' = Op("Change", token, last.cust, last.name, last.path, "-",
                  TRUE, "ok", w.events, OutputRelativePath(w, PathConfig),
                  "nil")
    /\ UNCHANGED <<wasmDetectionFuncFromGoFile,
                   wasmDetectionFuncFromJsFile,
                   mainFile, otherWasmGo, tinygoOnPath, call>>

NextPath == \E token \in Tokens : PathChange(token)

SpecPath == InitPath /\ [][NextPath]_vars

\* --------------------------------------------- detection from file events
\* The instance starts undetected with both detection fields active, and
\* is told about files.  last.js is the content of the file of the event.
EventDetectNames ==
    { mainInputFile, <<"users", ".wasm", ".go">>, <<"util", ".go">>,
      <<"main", ".js">> }

EventDetectPaths ==
    { <<>>, <<"web", "/", "public", "/", "f">>, <<"src", "/", "f">> }

EventDetectEvents == {"create", "write", "remove"}

EventDetectFiles ==
    { NoFile, File(embeddedWasmExecGo), File(embeddedWasmExecTinyGo),
      File(<<"console.log", "\n">>),
      File(<<"runtime.wasmExit", "\n", "tinygo_js", "\n">>) }

InitEventDetect ==
    \E tinygo \in BOOLEAN :
        /\ currentMode = BuildLargeSizeShortcut
        /\ activeBuilder = "builderCoding"
        /\ tinyGoCompiler = FALSE
        /\ wasmProject = FALSE
        /\ tinyGoInstalled = tinygo
        /\ cache = [C |-> <<>>, D |-> <<>>, P |-> <<>>]
        /\ artifact = NoFile
        /\ mainFile = FALSE
        /\ otherWasmGo = FALSE
        /\ tinygoOnPath = tinygo
        /\ last = Op("New", <<>>, <<>>, <<>>, <<>>, "-", TRUE, "ok",
                     <<>>, <<>>, "nil")
        /\ steps = 0
        /\ call = Idle
        /\ wasmDetectionFuncFromGoFile = "active"
        /\ wasmDetectionFuncFromJsFile = "active"

EventDetectNewFileEvent(name, extension, path, event, file, compileOk) ==
    \E r \in {NewFileEventDetecting(
                  [w |-> Cur, goFunc |-> wasmDetectionFuncFromGoFile,
                   jsFunc |-> wasmDetectionFuncFromJsFile],
                  name, extension, path, event, file, compileOk)} :
    /\ steps < MaxEventDetectSteps
    /\ steps' = steps + 1
    /\ compileOk
         \/ r # NewFileEventDetecting(
                   [w |-> Cur, goFunc |-> wasmDetectionFuncFromGoFile,
                    jsFunc |-> wasmDetectionFuncFromJsFile],
                   name, extension, path, event, file, TRUE)
    /\ (extension = ".js") = (name = <<"main", ".js">>)
    /\ Set(r.d.w)
    /\ wasmDetectionFuncFromGoFile' = r.d.goFunc
    /\ wasmDetectionFuncFromJsFile' = r.d.jsFunc
    /\ last' = Op("NewFileEvent", <<extension>>, <<>>, name, path, event,
                  compileOk, "ok", r.d.w.events, file.content, r.err)
    /\ UNCHANGED <<mainFile, otherWasmGo, tinygoOnPath, call>>

NextEventDetect ==
    \E name \in EventDetectNames, extension \in EventExtensions,
       path \in EventDetectPaths, event \in EventDetectEvents,
       file \in EventDetectFiles, compileOk \in BOOLEAN :
        EventDetectNewFileEvent(name, extension, path, event, file,
                                compileOk)

SpecEventDetect == InitEventDetect /\ [][NextEventDetect]_vars

\* ------------------------------------------------------------ MCP tools
\* The tool wasm_set_mode called with every kind of argument map.
\* last.name is the kind of args["mode"], last.token its value, last.event
\* tells whether Change was called.
McpArgs ==
    { [kind |-> "missing", value |-> <<>>],
      [kind |-> "number", value |-> <<>>] }
    \cup { [kind |-> "string", value |-> t] : t \in Tokens }

InitMcp ==
    \E file \in CacheArtifacts, entry \in BOOLEAN, tinygo \in BOOLEAN :
        LET w == New(file, entry, FALSE, tinygo, "ok") IN
        /\ currentMode = w.currentMode
        /\ activeBuilder = w.activeBuilder
        /\ tinyGoCompiler = w.tinyGoCompiler
        /\ wasmProject = w.wasmProject
        /\ tinyGoInstalled = w.tinyGoInstalled
        /\ cache = w.cache
        /\ artifact = w.artifact
        /\ mainFile = entry
        /\ otherWasmGo = FALSE
        /\ tinygoOnPath = tinygo
        /\ last = Op("New", <<>>, <<>>, <<>>, <<>>, "-", TRUE, "ok",
                     <<>>, <<>>, "nil")
        /\ steps = 0
        /\ call = Idle
        /\ wasmDetectionFuncFromGoFile = "inactive"
        /\ wasmDetectionFuncFromJsFile = "inactive"

McpSetMode(arg, compileOk, io) ==
    \E r \in {wasm_set_mode(Cur, arg, mainFile, compileOk, io)} :
    /\ steps < MaxMcpSteps
    /\ steps' = steps + 1
    /\ compileOk \/ r # wasm_set_mode(Cur, arg, mainFile, TRUE, io)
    /\ io = "ok" \/ r # wasm_set_mode(Cur, arg, mainFile, compileOk, "ok")
    /\ Set(r.w)
    /\ last' = Op("wasm_set_mode", arg.value, <<>>, <<arg.kind>>, <<>>,
                  r.called, compileOk, io, r.w.events, <<>>, r.err)
    /\ UNCHANGED <<wasmDetectionFuncFromGoFile,
                   wasmDetectionFuncFromJsFile,
                   mainFile, otherWasmGo, tinygoOnPath, call>>

NextMcp ==
    \E arg \in McpArgs, compileOk \in BOOLEAN, io \in IOResults :
        McpSetMode(arg, compileOk, io)

SpecMcp == InitMcp /\ [][NextMcp]_vars

\* ----------------------------------------------------- claim vocabulary
\* The mode a token names once normalized, <<>> when it names none.
TokenMode(token) ==
    CASE token \in {<<"L">>, <<"l">>} -> <<"L">>
      [] token \in {<<"M">>, <<"m">>} -> <<"M">>
      [] token \in {<<"S">>, <<"s">>} -> <<"S">>
      [] OTHER -> <<>>

\* The builder registered for a mode
ModeBuilder(mode) ==
    CASE mode = <<"L">> -> "builderCoding"
      [] mode = <<"M">> -> "builderDebug"
      [] mode = <<"S">> -> "builderProduction"
      [] OTHER -> "none"

ModeNeedsTinyGo(mode) == mode \in {<<"M">>, <<"S">>}

\* The cache slot that belongs to a mode
ModeSlot(mode) ==
    CASE mode = <<"L">> -> "C"
      [] mode = <<"M">> -> "D"
      [] mode = <<"S">> -> "P"
      [] OTHER -> "none"

\* The header line "// TinyWasm: mode=<mode>"
ModeHeaderLine(mode) == <<"//", " ", "TinyWasm:", " ", "mode=">> \o mode

ModeSuccessText(mode) ==
    CASE mode = <<"L">> -> "Switching to coding mode"
      [] mode = <<"M">> -> "Switching to debugging mode"
      [] mode = <<"S">> -> "Switching to production mode"
      [] OTHER -> "none"

\* the kinds of the effects of an operation, in order
Kinds(events) == [i \in 1..Len(events) |-> events[i].e]

HasKind(events, e) == \E i \in 1..Len(events) : events[i].e = e

\* the last operation was Change with a token that names a mode
ChangeOfValid ==
    last.op = "Change" /\ TokenMode(last.token) # <<>>

\* ... and the mode's toolchain is available
ChangeOfAvailable ==
    /\ ChangeOfValid
    /\ ModeNeedsTinyGo(TokenMode(last.token)) => tinyGoInstalled

\* the step is a call of Change
ChangeStep == steps' # steps /\ last'.op = "Change"

\* ---------------------------------------------------------------- C1
\* C1: in every reachable state the active builder is the builder
\* registered for the current mode: coding for the coding shortcut, debug
\* for the debug shortcut, production for the production shortcut.
C1_ActiveBuilderMatchesMode ==
    currentMode \in {<<"L">>, <<"M">>, <<"S">>}
        => activeBuilder = ModeBuilder(currentMode)

\* ---------------------------------------------------------------- C2
\* C2 as stated: after Change with any valid token, from any mode, Value()
\* is the token's normalized form.
C2_EveryValidTokenCommits ==
    ChangeOfValid => Value(Cur) = TokenMode(last.token)

\* C2 amended: after Change with a valid token whose mode needs no TinyGo,
\* or with TinyGo verified installed, Value() is the token's normalized
\* form, whatever the mode was before.
C2_AvailableTokenCommits ==
    ChangeOfAvailable => Value(Cur) = TokenMode(last.token)

\* a lower-case token was normalized and committed as the debug mode
C2_Witness ==
    /\ ChangeOfAvailable
    /\ last.token = <<"m">>
    /\ Value(Cur) = <<"M">>
    /\ HasKind(last.events, "assign")

\* ---------------------------------------------------------------- C3
\* C3: Change with a token that names none of the three modes leaves the
\* current mode, the active builder and the cache slots unchanged, starts
\* no compilation, and reports a validation failure through progress.
C3_InvalidTokenRejected ==
    [][ (ChangeStep /\ TokenMode(last'.token) = <<>>)
          => /\ currentMode' = currentMode
             /\ activeBuilder' = activeBuilder
             /\ cache' = cache
             /\ Kinds(last'.events) = <<"progress">>
             /\ last'.events[1].msg.kind = "invalid mode" ]_vars

C3_Witness ==
    /\ last.op = "Change"
    /\ last.token = <<"X">>
    /\ Kinds(last.events) = <<"progress">>
    /\ last.events[1].msg.kind = "invalid mode"

\* ---------------------------------------------------------------- C4
\* C4: Change to a mode that needs TinyGo while tinyGoInstalled is false
\* leaves the current mode, the active builder and the cache slots
\* unchanged, and progress receives the unavailable-toolchain error.
C4_MissingTinyGoRejected ==
    [][ (ChangeStep /\ ModeNeedsTinyGo(TokenMode(last'.token))
                    /\ ~tinyGoInstalled)
          => /\ currentMode' = currentMode
             /\ activeBuilder' = activeBuilder
             /\ cache' = cache
             /\ Kinds(last'.events) = <<"progress">>
             /\ last'.events[1].msg.kind = "error"
             /\ last'.events[1].msg.text
                  = "Error: Cannot install TinyGo: not implemented" ]_vars

C4_Witness ==
    /\ last.op = "Change"
    /\ last.token = <<"S">>
    /\ ~tinyGoInstalled
    /\ Kinds(last.events) = <<"progress">>
    /\ last.events[1].msg.kind = "error"

\* ---------------------------------------------------------------- C5
\* C5: a Change that commits calls Cancel on the builder that was active
\* before, then assigns the new builder, and only then compiles: the first
\* effect is the Cancel, the second the assignment, and no Cancel, no
\* assignment follows.
C5_CancelBeforeAssignAndCompile ==
    [][ (ChangeStep /\ TokenMode(last'.token) # <<>>
           /\ (ModeNeedsTinyGo(TokenMode(last'.token)) => tinyGoInstalled))
          => /\ Len(last'.events) >= 2
             /\ last'.events[1].e = "cancel"
             /\ last'.events[1].b = activeBuilder
             /\ last'.events[2].e = "assign"
             /\ last'.events[2].b = ModeBuilder(TokenMode(last'.token))
             /\ \A i \in 3..Len(last'.events) :
                   last'.events[i].e \notin {"cancel", "assign"} ]_vars

\* coding was cancelled, debug assigned, then debug compiled
C5_Witness ==
    /\ ChangeOfAvailable
    /\ Len(last.events) >= 3
    /\ last.events[1].e = "cancel" /\ last.events[1].b = "builderCoding"
    /\ last.events[2].e = "assign" /\ last.events[2].b = "builderDebug"
    /\ last.events[3].e = "compile" /\ last.events[3].b = "builderDebug"

\* ---------------------------------------------------------------- C6
\* C6: when the recompilation of Change fails, progress receives a warning
\* carrying the compiler's error and the transition is committed: Value()
\* is the requested mode and the active builder is that mode's builder.
C6_CompileFailureStillCommits ==
    (ChangeOfAvailable /\ mainFile /\ ~last.compileOk)
        => /\ HasKind(last.events, "compile")
           /\ last.events[Len(last.events)].e = "progress"
           /\ last.events[Len(last.events)].msg.kind = "warning"
           /\ last.events[Len(last.events)].msg.text = CompileError
           /\ Value(Cur) = TokenMode(last.token)
           /\ activeBuilder = ModeBuilder(TokenMode(last.token))

C6_Witness ==
    /\ ChangeOfAvailable /\ mainFile /\ ~last.compileOk
    /\ last.token = <<"S">>
    /\ activeBuilder = "builderProduction"
    /\ last.events[Len(last.events)].msg.kind = "warning"

\* ---------------------------------------------------------------- C7
\* C7: in a detected WASM project, after a Change that commits mode m the
\* first line of wasm_exec.js on disk is the header of the mode Value()
\* returns.
C7_HeaderNeverStale ==
    (wasmProject /\ ChangeOfAvailable)
        => /\ artifact.exists
           /\ FirstLine(artifact.content) = ModeHeaderLine(Value(Cur))

\* ---------------------------------------------------------------- C8
\* C8 as stated: when the recompilation of Change succeeds, wasm_exec.js is
\* written with the new mode's header, and the success message follows.
C8_SuccessAlwaysWrites ==
    (ChangeOfAvailable /\ mainFile /\ last.compileOk)
        => /\ \E i \in 1..(Len(last.events) - 1) :
                /\ last.events[i].e = "write"
                /\ FirstLine(last.events[i].js)
                     = ModeHeaderLine(TokenMode(last.token))
           /\ last.events[Len(last.events)].e = "progress"
           /\ last.events[Len(last.events)].msg.kind = "success"

\* C8 amended: when the recompilation of Change succeeds, the success
\* message of the new mode is the last effect; in a WASM project whose
\* directory creation and file write succeed, the effect right before it
\* is the write of wasm_exec.js, whose content is the new mode's cache
\* slot; otherwise nothing is written.
C8_SuccessWritesThenReports ==
    (ChangeOfAvailable /\ mainFile /\ last.compileOk)
        => LET ev == last.events
               n == Len(last.events)
               m == TokenMode(last.token)
           IN
           /\ HasKind(ev, "compile")
           /\ ev[n].e = "progress"
           /\ ev[n].msg.kind = "success"
           /\ ev[n].msg.text = ModeSuccessText(m)
           /\ IF wasmProject /\ last.io = "ok"
              THEN /\ ev[n - 1].e = "write"
                   /\ ev[n - 2].e = "compile"
                   /\ ev[n - 1].js = cache[ModeSlot(m)]
                   /\ artifact = File(ev[n - 1].js)
              ELSE ~HasKind(ev, "write")

C8_Witness ==
    /\ ChangeOfAvailable /\ mainFile /\ last.compileOk
    /\ wasmProject /\ last.io = "ok"
    /\ last.token = <<"M">>
    /\ Kinds(last.events)
         = <<"cancel", "assign", "compile", "write", "progress">>
    /\ FirstLine(artifact.content) = ModeHeaderLine(<<"M">>)

\* ---------------------------------------------------------------- C9
\* C9: without the entry file, Change to a valid, available mode commits
\* the mode, reports that mode's success message and never compiles.
C9_NoEntryFileNoCompile ==
    (ChangeOfAvailable /\ ~mainFile)
        => /\ Value(Cur) = TokenMode(last.token)
           /\ Kinds(last.events) = <<"cancel", "assign", "progress">>
           /\ last.events[3].msg.kind = "success"
           /\ last.events[3].msg.text
                = ModeSuccessText(TokenMode(last.token))

C9_Witness ==
    /\ ChangeOfAvailable /\ ~mainFile
    /\ last.token = <<"S">>
    /\ currentMode = <<"S">>
    /\ last.events[3].msg.text = "Switching to production mode"

\* --------------------------------------------------------------- C10
\* C10: every non-empty cache slot holds content whose first line is the
\* mode header of the mode the slot belongs to.
C10_SlotHeaderNamesSlotMode ==
    \A m \in {<<"L">>, <<"M">>, <<"S">>} :
        cache[ModeSlot(m)] # <<>>
            => FirstLine(cache[ModeSlot(m)]) = ModeHeaderLine(m)

\* --------------------------------------------------------------- C11
\* C11: when JavascriptForInitializing is called in one of the three modes
\* and its output is written as wasm_exec.js, a construction on that file
\* has that same mode as its current mode, whatever source files exist.
C11_RoundTripRecoversMode ==
    (/\ last.op = "JavascriptForInitializing"
     /\ last.err = "nil"
     /\ wasmProject
     /\ currentMode \in {<<"L">>, <<"M">>, <<"S">>})
        => \A entry \in BOOLEAN, other \in BOOLEAN :
              New(File(last.js), entry, other, tinygoOnPath, "ok").currentMode
                = currentMode

\* --------------------------------------------------------------- C14
\* C14: of two consecutive JavascriptForInitializing calls in the same
\* mode, the second returns the string the first returned, which is the
\* mode's cache slot, and leaves the cache unchanged.
C14_SecondCallReturnsFirst ==
    [][ (/\ steps' # steps
         /\ last.op = "JavascriptForInitializing"
         /\ last'.op = "JavascriptForInitializing"
         /\ last.err = "nil"
         /\ currentMode \in {<<"L">>, <<"M">>, <<"S">>})
          => /\ last'.js = last.js
             /\ last'.js = cache[ModeSlot(currentMode)]
             /\ cache' = cache ]_vars

\* a call with a custom header and footer returned the cached default text
C14_Witness ==
    /\ last.op = "JavascriptForInitializing"
    /\ steps = 2
    /\ last.cust = <<CustomHeader, CustomFooter>>
    /\ last.js # <<>>
    /\ last.js = cache[ModeSlot(currentMode)]
    /\ FirstLine(last.js) = ModeHeaderLine(currentMode)

\* --------------------------------------------------------------- C17
\* C17: in a WASM project the text JavascriptForInitializing returns holds
\* the TinyGo runtime when the current mode is a TinyGo mode and the Go
\* runtime when it is the coding mode.
C17_PayloadFollowsMode ==
    (/\ last.op = "JavascriptForInitializing"
     /\ last.err = "nil"
     /\ wasmProject
     /\ currentMode \in {<<"L">>, <<"M">>, <<"S">>})
        => IF ModeNeedsTinyGo(currentMode)
           THEN /\ Contains(last.js, "tinygo_js")
                /\ ~Contains(last.js, "runtime.wasmExit")
           ELSE /\ Contains(last.js, "runtime.wasmExit")
                /\ ~Contains(last.js, "tinygo_js")

\* --------------------------------------------------------------- C18
\* C18: no operation on an orchestrator whose wasmProject flag is true
\* sets the flag to false.
C18_ProjectFlagMonotonic ==
    [][ (wasmProject /\ last'.op # "New") => wasmProject' ]_vars

C18_Witness ==
    /\ wasmProject
    /\ steps = 2
    /\ last.op = "ClearJavaScriptCache"
    /\ cache = [C |-> <<>>, D |-> <<>>, P |-> <<>>]

\* ------------------------------------------- detection vocabulary
\* the mode whose header is the first line of the content, if any
NamedMode(content) ==
    IF \E m \in {<<"L">>, <<"M">>, <<"S">>} :
          FirstLine(content) = ModeHeaderLine(m)
    THEN CHOOSE m \in {<<"L">>, <<"M">>, <<"S">>} :
            FirstLine(content) = ModeHeaderLine(m)
    ELSE <<>>

GoCount(content) == SigCount(content, wasm_execGoSignatures)

TinyCount(content) == SigCount(content, wasm_execTinyGoSignatures)

\* the last operation was a construction that found a wasm_exec.js
Constructed == last.op = "New" /\ last.event = "exists"

\* ... and the file holds a runtime signature, so that Phase 1 decides
Phase1Decides ==
    Constructed /\ (GoCount(last.js) > 0 \/ TinyCount(last.js) > 0)

\* --------------------------------------------------------------- C12
\* C12: after a construction on a wasm_exec.js with signatures whose first
\* line names none of the three modes, the current mode is the coding mode
\* when the Go family was detected and a TinyGo mode otherwise.
C12_InvalidHeaderGivesFamilyDefault ==
    (Phase1Decides /\ NamedMode(last.js) = <<>>)
        => IF tinyGoCompiler
           THEN currentMode \in {<<"M">>, <<"S">>}
           ELSE currentMode = <<"L">>

\* --------------------------------------------------------------- C13
\* C13: after a construction on a wasm_exec.js with TinyGo signatures whose
\* first line is the header of the debug or of the production mode, the
\* current mode is the mode of the header.
C13_HeaderOverridesDefault ==
    (/\ Constructed
     /\ TinyCount(last.js) > 0
     /\ NamedMode(last.js) \in {<<"M">>, <<"S">>})
        => /\ currentMode = NamedMode(last.js)
           /\ Value(Cur) = NamedMode(last.js)

\* the production mode was restored where the family default is debug
C13_Witness ==
    /\ Constructed
    /\ last.js = DefaultHeader(<<"S">>) \o embeddedWasmExecTinyGo
    /\ tinyGoCompiler
    /\ currentMode = <<"S">>

\* --------------------------------------------------------------- C19
\* C19: after a construction on an existing wasm_exec.js: when one family
\* has strictly more signatures than the other, the instance is a WASM
\* project of that family; when the file has no signature at all, the
\* state is what the source scan alone gives: a Go project in the coding
\* mode when a source file is found, else no project and nothing written.
C19_FamilyFromSignatureCounts ==
    Constructed =>
        LET g == GoCount(last.js)
            t == TinyCount(last.js)
        IN
        /\ (t > g) => (wasmProject /\ tinyGoCompiler)
        /\ (g > t) => (wasmProject /\ ~tinyGoCompiler)
        /\ (g = 0 /\ t = 0) =>
              /\ currentMode = <<"L">>
              /\ activeBuilder = "builderCoding"
              /\ ~tinyGoCompiler
              /\ wasmProject = (mainFile \/ otherWasmGo)
              /\ ~wasmProject => (artifact = File(last.js)
                                  /\ last.events = <<>>)
              /\ (wasmProject /\ last.io = "ok")
                    => Kinds(last.events) = <<"write">>

\* both families matched, the Go family with one signature more
C19_Witness ==
    /\ Constructed
    /\ GoCount(last.js) = 2
    /\ TinyCount(last.js) = 1
    /\ wasmProject
    /\ ~tinyGoCompiler

\* --------------------------------------------------------------- C20
\* C20: a construction on a wasm_exec.js that holds a runtime signature
\* writes nothing and leaves the file as it was, and its mode, family and
\* project flag are those of a construction on the same file with any
\* other source files.
C20_ArtifactTakesPrecedence ==
    Phase1Decides =>
        /\ artifact = File(last.js)
        /\ ~HasKind(last.events, "write")
        /\ \A entry \in BOOLEAN, other \in BOOLEAN :
              LET w == New(File(last.js), entry, other, tinygoOnPath, "ok")
              IN
              /\ w.currentMode = currentMode
              /\ w.tinyGoCompiler = tinyGoCompiler
              /\ w.wasmProject = wasmProject
              /\ w.artifact = artifact

\* a TinyGo artifact was found next to the entry file and was kept
C20_Witness ==
    /\ Phase1Decides
    /\ mainFile
    /\ tinyGoCompiler
    /\ currentMode = <<"M">>
    /\ artifact = File(embeddedWasmExecTinyGo)
    /\ last.events = <<>>

\* --------------------------------------------------------------- C15
\* entries i < j of the log are texts generated in the same mode, one of
\* the three, with no ClearJavaScriptCache between them
SameModeNoClear(log, i, j) ==
    /\ i < j
    /\ log[i].e = "generate" /\ log[j].e = "generate"
    /\ log[i].msg.text = "nil" /\ log[j].msg.text = "nil"
    /\ log[i].msg.mode = log[j].msg.mode
    /\ log[i].msg.mode \in {<<"L">>, <<"M">>, <<"S">>}
    /\ \A k \in (i + 1)..(j - 1) : log[k].e # "clear"

\* C15: without ClearJavaScriptCache in between, every text generated in
\* a mode is the text generated on the first visit to that mode, whatever
\* modes were switched to and generated in meanwhile; and a step that
\* generates in one mode leaves the slots of the other modes unchanged.
C15_CacheIsolation ==
    /\ [](\A i \in 1..Len(last.events), j \in 1..Len(last.events) :
             SameModeNoClear(last.events, i, j)
                => last.events[j].js = last.events[i].js)
    /\ [][ (/\ last'.op \in {"Change", "JavascriptForInitializing"}
            /\ currentMode' \in {<<"L">>, <<"M">>, <<"S">>})
             => \A m \in {<<"L">>, <<"M">>, <<"S">>} :
                   m # currentMode'
                     => cache'[ModeSlot(m)] = cache[ModeSlot(m)] ]_vars

\* L was generated, then M was switched to and generated, then L was
\* switched back to, and a call in L returned the first text
C15_Witness ==
    /\ last.op = "JavascriptForInitializing"
    /\ currentMode = <<"L">>
    /\ last.js # <<>>
    /\ \E i \in 1..Len(last.events), k \in 1..Len(last.events) :
          /\ i < k /\ k < Len(last.events)
          /\ SameModeNoClear(last.events, i, Len(last.events))
          /\ last.events[i].js = last.js
          /\ last.events[k].e = "generate"
          /\ last.events[k].msg.mode = <<"M">>
          /\ last.events[k].js # <<>>
          /\ last.events[k].js # last.js

\* --------------------------------------------------------------- C16
\* C16: whatever Change calls ran while a JavascriptForInitializing call
\* was in progress, the text the call stores is in the slot of the mode
\* that its first line names.
C16_StoredHeaderMatchesSlot ==
    (/\ last.op = "JavascriptForInitializing"
     /\ last.event = "stored"
     /\ last.token \in {<<"L">>, <<"M">>, <<"S">>})
        => /\ cache[ModeSlot(last.token)] = last.js
           /\ FirstLine(last.js) = ModeHeaderLine(last.token)

\* --------------------------------------------------------------- C21
\* C21: a construction that follows a construction whose source scan wrote
\* wasm_exec.js writes nothing, leaves the file as it is, and ends as the
\* first did: a WASM project of the Go family in the coding mode with the
\* coding builder active.
C21_SecondRunHitsPhase1 ==
    [][ (/\ steps' # steps
         /\ last.op = "New"
         /\ HasKind(last.events, "write")
         /\ last'.op = "New")
          => /\ last'.events = <<>>
             /\ artifact' = artifact
             /\ wasmProject' /\ wasmProject
             /\ ~tinyGoCompiler' /\ ~tinyGoCompiler
             /\ currentMode' = <<"L">> /\ currentMode = <<"L">>
             /\ activeBuilder' = "builderCoding"
             /\ activeBuilder = "builderCoding" ]_vars

\* the second construction found the file the first one generated
C21_Witness ==
    /\ last.op = "New"
    /\ steps = 1
    /\ last.event = "exists"
    /\ last.js = GeneratedJs(<<"L">>, embeddedWasmExecGo)
    /\ last.events = <<>>
    /\ wasmProject
    /\ currentMode = <<"L">>
    /\ activeBuilder = "builderCoding"

C23_EmptyProjectStaysEmpty ==
    (/\ last.op = "New"
     /\ last.event = "absent"
     /\ ~mainFile /\ ~otherWasmGo)
        => /\ ~wasmProject
           /\ last.events = <<>>
           /\ artifact = NoFile
           /\ \A cust \in Customizations :
                 /\ JavascriptForInitializing(Cur, cust).js = <<>>
                 /\ JavascriptForInitializing(Cur, cust).err = "nil"
                 /\ JavascriptForInitializing(Cur, cust).w = Cur

C23_Witness ==
    /\ last.op = "New"
    /\ last.event = "absent"
    /\ ~mainFile /\ ~otherWasmGo
    /\ ~wasmProject
    /\ ~artifact.exists
    /\ tinyGoInstalled
    /\ JavascriptForInitializing(Cur, <<>>).js = <<>>

\* --------------------------------------------------------------- C24
\* C24: a JavascriptForInitializing call on a WASM project whose active
\* builder is not set and whose slot for the current mode is empty returns
\* the "not initialized" error and no text, and leaves every cache slot as
\* it was.
C24_NoBuilderIsAnError ==
    [][ (/\ steps' # steps
         /\ last'.op = "JavascriptForInitializing"
         /\ wasmProject
         /\ activeBuilder = "nil"
         /\ cache[ModeSlot(Value(Cur))] = <<>>)
          => /\ last'.err = "activeBuilder not initialized"
             /\ last'.js = <<>>
             /\ cache' = cache ]_vars

\* the call failed while the slot of another mode was filled and stayed so
C24_Witness ==
    /\ last.op = "JavascriptForInitializing"
    /\ last.err = "activeBuilder not initialized"
    /\ wasmProject
    /\ activeBuilder = "nil"
    /\ currentMode = <<"M">>
    /\ cache.D = <<>>
    /\ cache.C # <<>>

\* --------------------------------------------------------------- C25
\* C25: a Change whose directory creation or artifact write fails commits
\* the mode and its builder and ends with the success message, without a
\* write; and the next committing Change that compiles, with both calls
\* succeeding, writes wasm_exec.js from the slot of its mode.
C25_WriteFailureIsNotFatal ==
    /\ []((last.op = "Change" /\ last.io # "ok")
            => /\ Value(Cur) = TokenMode(last.token)
               /\ activeBuilder = ModeBuilder(TokenMode(last.token))
               /\ ~HasKind(last.events, "write")
               /\ last.events[Len(last.events)].e = "progress"
               /\ last.events[Len(last.events)].msg.kind = "success")
    /\ [][ (/\ steps' # steps
            /\ last.op = "Change" /\ last.io # "ok"
            /\ last'.op = "Change" /\ last'.io = "ok"
            /\ HasKind(last'.events, "compile")
            /\ last'.compileOk)
             => /\ HasKind(last'.events, "write")
                /\ artifact'.exists
                /\ artifact'.content = cache'[ModeSlot(Value(Cur)')] ]_vars

\* the write failed after the text for the debug mode had been generated
C25_Witness ==
    /\ last.op = "Change"
    /\ last.io = "write_fails"
    /\ currentMode = <<"M">>
    /\ activeBuilder = "builderDebug"
    /\ cache.D # <<>>
    /\ artifact.content # cache.D
    /\ last.events[Len(last.events)].msg.kind = "success"

\* --------------------------------------------------------------- C26
\* C26: a JavascriptForInitializing call that directly follows
\* ClearJavaScriptCache returns the text that every earlier call without
\* arguments returned in the same mode.
C26_FreshEqualsCached ==
    \A i \in 1..Len(last.events), k \in 1..Len(last.events) :
        (/\ i < k /\ k < Len(last.events)
         /\ last.events[k].e = "clear"
         /\ last.events[i].e = "generate"
         /\ last.events[k + 1].e = "generate"
         /\ last.events[i].msg.kind = "plain"
         /\ last.events[k + 1].msg.kind = "plain"
         /\ last.events[i].msg.text = "nil"
         /\ last.events[k + 1].msg.text = "nil"
         /\ last.events[i].msg.mode = last.events[k + 1].msg.mode
         /\ last.events[i].msg.mode \in {<<"L">>, <<"M">>, <<"S">>})
            => last.events[k + 1].js = last.events[i].js

\* --------------------------------------------------------------- C27
\* C27: ClearJavaScriptCache leaves the three cache slots empty, in every
\* mode, and leaves the current mode, the active builder and the project
\* flag as they were.
C27_ClearEmptiesEverySlot ==
    [][ (steps' # steps /\ last'.op = "ClearJavaScriptCache")
          => /\ cache' = [C |-> <<>>, D |-> <<>>, P |-> <<>>]
             /\ currentMode' = currentMode
             /\ activeBuilder' = activeBuilder
             /\ wasmProject' = wasmProject ]_vars

\* cleared in the production mode, after the Change that filled its slot
C27_Witness ==
    /\ last.op = "ClearJavaScriptCache"
    /\ steps = 2
    /\ currentMode = <<"S">>
    /\ activeBuilder = "builderProduction"
    /\ wasmProject
    /\ artifact.exists
    /\ FirstLine(artifact.content) = ModeHeaderLine(<<"S">>)
    /\ cache = [C |-> <<>>, D |-> <<>>, P |-> <<>>]

\* --------------------------------------------------------------- C28
\* the name's last two parts are ".wasm" and ".go"
EndsWithWasmGo(name) ==
    /\ Len(name) >= 2
    /\ name[Len(name) - 1] = ".wasm"
    /\ name[Len(name)] = ".go"

C29_OnlyWriteCompiles ==
    (last.op = "NewFileEvent" /\ HasKind(last.events, "compile"))
       => last.event = "write"

\* --------------------------------------------------------------- C30
\* C30: NewFileEvent with an empty filePath returns an error and does not
\* run the compiler, for every file name, extension and event.
C30_EmptyPathIsAnError ==
    (last.op = "NewFileEvent" /\ last.path = <<>>)
       => /\ last.err # "nil"
          /\ ~HasKind(last.events, "compile")
          /\ last.events = <<>>

\* the entry file was written, on an instance with a builder, with no path
C30_Witness ==
    /\ last.op = "NewFileEvent"
    /\ last.path = <<>>
    /\ last.name = MainInputFile
    /\ last.token = <<".go">>
    /\ last.event = "write"
    /\ activeBuilder # "nil"
    /\ last.err = "NewFileEvent Wasm filePath is empty"

\* --------------------------------------------------------------- C31
\* C31: a createDefaultWasmFile call that finds a file at the target path
\* returns no error and leaves the file with its content; the content of
\* the target changes in a call only if no file was there, and is then
\* the code of the template.
C31_NeverOverwrites ==
    [][ (steps' # steps /\ last'.op = "createDefaultWasmFile")
          => /\ mainFile => /\ last'.err = "nil"
                            /\ mainFile'
                            /\ last'.js = last.js
             /\ (mainFile' # mainFile \/ last'.js # last.js)
                   => /\ ~mainFile
                      /\ mainFile'
                      /\ last'.js = BasicWasmClient ]_vars

\* the call found the user's file and left it
C31_Witness ==
    /\ last.op = "createDefaultWasmFile"
    /\ mainFile
    /\ last.js = <<"// ORIGINAL CONTENT DO NOT OVERWRITE">>
    /\ last.err = "nil"
    /\ ~wasmProject

\* --------------------------------------------------------------- C32
\* C32: OutputRelativePath never returns an absolute path, and a Change
\* call, to whichever mode, leaves its result as it was.
C32_OutputPathSameInEveryMode ==
    /\ [](~IsAbs(last.js) /\ last.js # <<>> /\ last.js[1] # "\\")
    /\ [][ last'.op = "Change" => last'.js = last.js ]_vars

\* the three modes were visited under an absolute root
C32_Witness ==
    /\ last.op = "Change"
    /\ steps = 2
    /\ currentMode = <<"S">>
    /\ activeBuilder = "builderProduction"
    /\ HasKind(last.events, "compile")
    /\ last.path = <<"/", "test", "/", "project">>
    /\ last.js = <<"src", "/", "web", "/", "public", "/", "main", ".", "wasm">>

\* --------------------------------------------------------------- C33
\* C33: once a file event has detected the project, both detection fields
\* are inactive, and a further file event changes neither the project
\* flag nor the TinyGo-compiler flag.
C33_EventDetectionIsOneShot ==
    /\ [](wasmProject => /\ wasmDetectionFuncFromGoFile = "inactive"
                         /\ wasmDetectionFuncFromJsFile = "inactive")
    /\ [][ wasmProject => /\ wasmProject' = wasmProject
                          /\ tinyGoCompiler' = tinyGoCompiler ]_vars

\* --------------------------------------------------------------- C34
\* the prefixes a configuration names as frontend prefixes
FrontendPrefix == {"f.", "frontend.", "ui."}

\* the name is prefix.name.go, and not a .wasm.go file
DottedPrefix(name) ==
    Len(name) >= 3 /\ name[Len(name)] = ".go" /\ ~EndsWithWasmGo(name)

\* the name is name.go, and not the entry file
RegularGoFile(name) ==
    Len(name) = 2 /\ name[2] = ".go" /\ name # MainInputFile

\* strings.Contains(filePath, "/modules/")
InModulesFolder(path) ==
    \E i \in 1..(Len(path) - 2) :
        path[i] = "/" /\ path[i + 1] = "modules" /\ path[i + 2] = "/"

\* C34: ShouldCompileToWasm answers true for a name that starts with a
\* frontend prefix and for a regular Go file under the modules folder, and
\* false for a name with another dotted prefix and for a regular Go file
\* outside the modules folder.
C34_PrefixesAndModulesFolder ==
    last.op = "ShouldCompileToWasm"
      => /\ (DottedPrefix(last.name) /\ last.name[1] \in FrontendPrefix)
               => last.err = "true"
         /\ (RegularGoFile(last.name) /\ InModulesFolder(last.path))
               => last.err = "true"
         /\ (DottedPrefix(last.name) /\ last.name[1] \notin FrontendPrefix)
               => last.err = "false"
         /\ (RegularGoFile(last.name) /\ ~InModulesFolder(last.path))
               => last.err = "false"

\* --------------------------------------------------------------- C35
\* C35: a Change that is rejected, for a token that names no mode or for a
\* mode whose toolchain is missing, calls Cancel on no builder.
C35_RejectedChangeNeverCancels ==
    (last.op = "Change" /\ ~ChangeOfAvailable)
        => ~HasKind(last.events, "cancel")

\* the production mode was committed, then an unknown token was rejected
C35_Witness ==
    /\ last.op = "Change"
    /\ last.token = <<"X">>
    /\ steps = 2
    /\ currentMode = <<"S">>
    /\ activeBuilder = "builderProduction"
    /\ ~HasKind(last.events, "cancel")

\* --------------------------------------------------------------- C36
\* the number of progress calls among the effects
ProgressCalls(events) ==
    Cardinality({i \in 1..Len(events) : events[i].e = "progress"})

\* C36: every Change calls progress exactly once, as its last effect.
C36_ProgressExactlyOnce ==
    last.op = "Change"
        => /\ ProgressCalls(last.events) = 1
           /\ last.events[Len(last.events)].e = "progress"

\* the path of a failed compilation: one warning, nothing after it
C36_Witness ==
    /\ last.op = "Change"
    /\ ~last.compileOk
    /\ Kinds(last.events) = <<"cancel", "assign", "compile", "progress">>
    /\ last.events[4].msg.kind = "warning"

\* --------------------------------------------------------------- C37
\* operations of an instance other than its construction and the scaffold
InstanceCalls ==
    {"Change", "NewFileEvent", "JavascriptForInitializing",
     "ClearJavaScriptCache", "EditEntryFile"}

C38_FileEventUsesModeBuilder ==
    (/\ last.op = "NewFileEvent"
     /\ currentMode \in {<<"L">>, <<"M">>, <<"S">>})
        => \A i \in 1..Len(last.events) :
              last.events[i].e = "compile"
                 => last.events[i].b = ModeBuilder(currentMode)

C40_ErrorOnlyForBadArgument ==
    last.op = "wasm_set_mode"
        => IF last.name # <<"string">>
           THEN /\ last.err # "nil"
                /\ last.event = "-"
                /\ last.events = <<>>
           ELSE /\ last.err = "nil"
                /\ last.event = "Change"
                /\ ProgressCalls(last.events) = 1

\* Change rejected the token, and the tool returned nil
C40_Witness ==
    /\ last.op = "wasm_set_mode"
    /\ last.name = <<"string">>
    /\ last.token = <<"X">>
    /\ last.err = "nil"
    /\ Kinds(last.events) = <<"progress">>
    /\ last.events[1].msg.kind = "invalid mode"

====
